---- MODULE Spec2Model ----
(***************************************************************************)
(* x-scraper: the tweet-processing pipeline (processTweet), the recovery   *)
(* sweep (retryFailedAI), the rotation cron tick of startWorker and the    *)
(* session set-up (setupPersistentBrowser), as state machines.             *)
(*                                                                         *)
(* Every await of the source is a point where another task of the single   *)
(* Node.js event loop can run; an action below is the synchronous code     *)
(* between two awaits together with the store operation it waits for.      *)
(* The specifications share the variables; each follows one part:         *)
(*   SpecPipeline    feed scanner, deep-scanner and recovery sweep over    *)
(*                   the Post / TweetsIA collections, with a clock;        *)
(*   SpecCursor      the cron tick and the ScraperState cursor;            *)
(*   SpecRoster      the same with accounts inserted and deleted;          *)
(*   SpecOverlap     the same with a deep-scan longer than the period;     *)
(*   SpecSession     startWorker and setupPersistentBrowser;               *)
(*   SpecSupervisor  the same with a feed loop that throws;                *)
(*   SpecOutcome     one scan and its sweep, step by step;                 *)
(*   SpecBacklog     the same over a store of unprocessed posts;           *)
(*   SpecClassifier  the scan with retryWithBackoff and classifyTweet;     *)
(*   SpecDrain       sweep after sweep, under fairness;                    *)
(*   SpecDeep        processUserAndMentions and its two scrapers;          *)
(*   SpecFeed        the cycle of runWorker: snapshot, filters, forwarding;*)
(*   SpecScroll      the scroll loop of the two scrapers, under fairness.  *)
(***************************************************************************)
EXTENDS Integers, Sequences, FiniteSets, TLC

(***************************************************************************)
(* Bounds of the model.                                                    *)
(***************************************************************************)
MaxTweets == 2      \* distinct post identifiers the scrapers can return
MaxBatch == 1       \* candidates returned by one scrape
MaxSweeps == 1      \* retryFailedAI invocations alive at the same time
MaxTicks == 1       \* clock ticks of the pipeline specification
MaxNotes == 2       \* sendToDiscord calls in one run of the model
MaxUsers == 3       \* tracked accounts in the User collection
MaxWorkers == 2     \* callers of the exported startWorker
MaxRestarts == 2    \* restarts by the 10 s timer
MaxLogins == 2      \* handleLogin invocations
MaxCands == 2       \* candidates of the scan that is followed in detail
MaxContracts == 1   \* contract addresses in one classifier answer
MaxBacklog == 5     \* unprocessed posts left in the store by earlier runs
MaxChurnTicks == 1  \* ticks up to which the users API is called
MaxArticles == 6    \* article cards on the page of one scrape
MaxCards == 21      \* article cards the page reports to one poll

(***************************************************************************)
(* Program constants.                                                      *)
(***************************************************************************)
AI_CALL_INTERVAL == 6000
AI_TIMEOUT_MS == 15000
PRIMARY_TIMEOUT_MS == 20000
AI_CONCURRENCY == 1
SWEEP_LIMIT == 5
RESTART_DELAY == 10000
RETRIES == 3
INITIAL_DELAY == 2000
SAMPLE_LIMIT == 5

ClockStep == PRIMARY_TIMEOUT_MS
StartTime == AI_CALL_INTERVAL
EndTime == StartTime + MaxTicks * ClockStep

Scanners == {"feed", "deep"}
Sweeps == 1..MaxSweeps
TweetIds == 1..MaxTweets

(***************************************************************************)
(* enum Category of worker.ts, and what the classifier can answer: the     *)
(* response schema types category as a free string.                        *)
(***************************************************************************)
Category ==
    {"Trending", "Viral", "Airdrop", "Market Analysis", "Signals",
     "Launch Alerts", "Presale", "Crypto News", "Project Updates",
     "Governance", "PnL Sharing", "New Meme", "Contract Alert", "Listing",
     "Price Alert", "News", "Scam Warning", "Market Sentiment", "Giveaway",
     "NFT", "not-relevant"}

ClassifierOutputs == Category \cup {"memecoin"}

VARIABLES
    now,              \* Date.now()
    lastAICallTime,   \* worker.ts global
    aiLimiter,        \* pLimit(1): active count and FIFO queue
    orphans,          \* classifyTweet calls still running after a timeout
    aiCalls,          \* classifyTweet calls seen by the classifier: time of
                      \* the last one, gap between the last two
    posts,            \* Post collection, in insertion order
    tweetsIA,         \* TweetsIA collection
    notes,            \* number of sendToDiscord calls per channel
    notified,         \* number of sendToDiscord calls per post identifier
    tweetsDB,         \* runWorker's snapshot of stored identifiers
    pt,               \* per scanner: position in its loop and in processTweet
    sw,               \* per sweep: position in retryFailedAI
    users,            \* User collection, sorted by _id
    scraperState,     \* lastProcessedIndex of 'user-sequencer', -1: no document
    tick,             \* the cron callback: position, allUsers, nextIndex
    scanLog,          \* the last ticks: list read and index deep-scanned
    late,             \* an earlier cron callback still in its deep-scan
    isLoggingIn,      \* worker.ts global
    currentCredentials, \* worker.ts global, 0: null
    browserInstance,  \* worker.ts global: "null", "open" or "closed"
    credFile,         \* credentials.json, 0: absent or empty auth_token
    logins,           \* handleLogin invocations
    wk,               \* per startWorker run: position and setup result
    timers,           \* pending setTimeout(startWorker, delay)
    restarts,         \* timers that have fired
    errorsSent,       \* sendErrorChannel calls of startWorker
    feeds,            \* runWorker loops started
    crons,            \* cron jobs scheduled
    feedCrashes,      \* runWorker promises that have rejected
    job,              \* one scan followed in detail: its candidates and the
                      \* locals of the processTweet invocation in progress
    retry,            \* the retryFailedAI invocation started by that scan
    scan,             \* one processUserAndMentions call: its page, the
                      \* results of its two scrapes, the calls it has made
    cycle,            \* the while loop of runWorker: its position, the
                      \* candidates still to forward, the calls it has made
    scroll            \* the scroll loop of one scrape: its locals, and
                      \* whether its last step scrolled the page

pipeVars == <<now, lastAICallTime, aiLimiter, orphans, aiCalls, posts,
              tweetsIA, notes, notified, tweetsDB, pt, sw>>

cursorVars == <<users, scraperState, tick, scanLog, late>>

sessionVars == <<isLoggingIn, currentCredentials, browserInstance, credFile,
                 logins, wk, timers, restarts, errorsSent, feeds, crons,
                 feedCrashes>>

outcomeVars == <<job, retry, scan, cycle, scroll>>

vars == <<pipeVars, cursorVars, sessionVars, outcomeVars>>

(***************************************************************************)
(* Helpers on the collections.                                             *)
(***************************************************************************)
Max(a, b) == IF a >= b THEN a ELSE b

Ids(coll) == {coll[i].tweetId : i \in DOMAIN coll}

Matching(coll, id) == {i \in DOMAIN coll : coll[i].tweetId = id}

FirstMatch(coll, id) ==
    CHOOSE i \in Matching(coll, id) : \A j \in Matching(coll, id) : i <= j

\* Post.findOne({ tweetId })
PostFindOne(coll, id) == Matching(coll, id) # {}

\* unique: true on Post.tweetId: an insert of a stored identifier is refused
PostUniqueOff(coll, id) == FALSE
PostUnique(coll, id) == Matching(coll, id) # {}

\* unique: true on TweetsIA.tweetId
TweetIAUnique(coll, id) == Matching(coll, id) # {}

\* Post.findOneAndUpdate({ tweetId }, { status })
FindOneAndUpdate(coll, id, st) ==
    IF Matching(coll, id) = {} THEN coll
    ELSE [coll EXCEPT ![FirstMatch(coll, id)].status = st]

RECURSIVE SelectIds(_, _)
SelectIds(coll, st) ==
    IF coll = <<>> THEN <<>>
    ELSE IF Head(coll).status = st
         THEN <<Head(coll).tweetId>> \o SelectIds(Tail(coll), st)
         ELSE SelectIds(Tail(coll), st)

Take(s, n) == SubSeq(s, 1, IF Len(s) < n THEN Len(s) ELSE n)

\* Post.find({ status: "unprocessed" }).limit(limit)
FindDiscarded(coll, limit) == Take(SelectIds(coll, "discarded"), limit)
FindUnprocessed(coll, limit) == Take(SelectIds(coll, "unprocessed"), limit)

StatusOf(id) == posts[FirstMatch(posts, id)].status

(***************************************************************************)
(* The switch over analysis.category of processTweet and retryFailedAI.    *)
(***************************************************************************)
SendChannelNoSignals(category) ==
    CASE category = "Airdrop" -> "alerts"
      [] category = "Launch Alerts" -> "alerts"
      [] category = "Presale" -> "alerts"
      [] category = "Contract Alert" -> "alerts"
      [] category = "Listing" -> "alerts"
      [] category = "Price Alert" -> "alerts"
      [] category = "Scam Warning" -> "alerts"
      [] category = "Giveaway" -> "alerts"
      [] category = "PnL Sharing" -> "alerts"
      [] category = "not-relevant" -> "none"
      [] OTHER -> "general"

SendChannel(category) ==
    CASE category = "Airdrop" -> "alerts"
      [] category = "Launch Alerts" -> "alerts"
      [] category = "Presale" -> "alerts"
      [] category = "Contract Alert" -> "alerts"
      [] category = "Listing" -> "alerts"
      [] category = "Price Alert" -> "alerts"
      [] category = "Scam Warning" -> "alerts"
      [] category = "Giveaway" -> "alerts"
      [] category = "Signals" -> "alerts"
      [] category = "PnL Sharing" -> "alerts"
      [] category = "not-relevant" -> "none"
      [] OTHER -> "general"

\* the store operation that follows the classification result; on the third
\* branch sendToDiscord comes first
AfterAnalysis(category) ==
    IF category = "error" THEN "setUnprocessed"
    ELSE IF category = "not-relevant" THEN "setDiscarded"
    ELSE "saveIA"

\* whether the branch taken for this result calls sendToDiscord
Routed(category) == category # "error" /\ category # "not-relevant"

\* lines 105-106 of processTweet
TimeToWait == Max(0, lastAICallTime + AI_CALL_INTERVAL - now)

\* the classifier's view of the calls: the gap is kept up to the interval
NoCalls == [last |-> -1, gap |-> -1]

LogCall(calls, t) ==
    [last |-> t,
     gap |-> IF calls.last = -1 THEN -1
             ELSE IF t - calls.last >= AI_CALL_INTERVAL THEN AI_CALL_INTERVAL
             ELSE t - calls.last]

Channels == {"alerts", "general"}

NoNotes == [c \in Channels |-> 0]

RECURSIVE SumOver(_, _)
SumOver(f, dom) ==
    IF dom = {} THEN 0
    ELSE LET x == CHOOSE y \in dom : TRUE
         IN f[x] + SumOver(f, dom \ {x})

NotesSent == SumOver(notes, DOMAIN notes)

NoneNotified == [id \in TweetIds |-> 0]

\* sendToDiscord(channel, dto)
SendToDiscord(log, channel) ==
    IF channel \in Channels THEN [log EXCEPT ![channel] = @ + 1] ELSE log

InFlight ==
    Cardinality({p \in Scanners : pt[p].pc = "classify"})
    + Cardinality({s \in Sweeps : sw[s].pc = "classify"})
    + orphans


(***************************************************************************)
(* Local state of a scanner and of a sweep.                                *)
(***************************************************************************)
PtAt(pcv) ==
    [pc |-> pcv, id |-> 0, queue |-> <<>>, wakeAt |-> 0, deadline |-> 0]

SwIdle ==
    [pc |-> "idle", id |-> 0, pending |-> <<>>, deadline |-> 0]

\* where a scanner goes when its list of candidates is exhausted
ScannerHome(p) == IF p = "feed" THEN "cycle" ELSE "finally"

\* processTweet has returned: the for loop of the scanner takes the next
\* candidate (runWorker 728-730, processUserAndMentions 418-430)
Resume(p, q) ==
    IF q = <<>> THEN PtAt(ScannerHome(p))
    ELSE [PtAt("findOne") EXCEPT !.id = Head(q), !.queue = Tail(q)]

CandLists == UNION {[1..n -> TweetIds] : n \in 0..MaxBatch}

\* the identifiers the scrapers have returned so far
Seen ==
    Ids(posts)
    \cup ({pt[p].id : p \in Scanners} \ {0})
    \cup UNION {{pt[p].queue[i] : i \in DOMAIN pt[p].queue} : p \in Scanners}

\* identifiers are opaque strings to the program: the model numbers them in
\* the order in which the scrapers first return them
InOrderOfAppearance(cands) ==
    \A i \in DOMAIN cands :
        cands[i] <= Cardinality(Seen \cup {cands[j] : j \in 1..(i - 1)}) + 1

\* retryFailedAI invocations are anonymous: a new one takes the first slot
FirstIdle(s) == sw[s].pc = "idle" /\ \A r \in Sweeps : r < s => sw[r].pc # "idle"

(***************************************************************************)
(* aiLimiter = pLimit(1): a call runs at once when fewer than one is       *)
(* active, else it queues; when the limited promise settles the head of    *)
(* the queue runs.  The limited promise is withTimeout(...), so the        *)
(* limiter is released when the timeout wins the race.                     *)
(***************************************************************************)
LimiterEnter(p, ptv) ==
    IF aiLimiter.activeCount < AI_CONCURRENCY
    THEN [pt |-> [ptv EXCEPT ![p].pc = "classify",
                             ![p].deadline = now + PRIMARY_TIMEOUT_MS],
          lim |-> [aiLimiter EXCEPT !.activeCount = @ + 1],
          started |-> TRUE]
    ELSE [pt |-> [ptv EXCEPT ![p].pc = "queued"],
          lim |-> [aiLimiter EXCEPT !.queue = Append(@, p)],
          started |-> FALSE]

LimiterRelease(ptv) ==
    IF aiLimiter.queue # <<>>
    THEN [pt |-> [ptv EXCEPT ![Head(aiLimiter.queue)].pc = "classify",
                             ![Head(aiLimiter.queue)].deadline =
                                 now + PRIMARY_TIMEOUT_MS],
          lim |-> [aiLimiter EXCEPT !.queue = Tail(@)],
          started |-> TRUE]
    ELSE [pt |-> ptv,
          lim |-> [aiLimiter EXCEPT !.activeCount = @ - 1],
          started |-> FALSE]

ApplyLimiter(r) ==
    /\ pt' = r.pt
    /\ aiLimiter' = r.lim
    /\ aiCalls' = IF r.started THEN LogCall(aiCalls, now)
                      ELSE aiCalls

(***************************************************************************)
(* The clock.                                                              *)
(***************************************************************************)
Tick ==
    /\ now < EndTime
    /\ now' = now + ClockStep
    /\ UNCHANGED <<lastAICallTime, aiLimiter, orphans, aiCalls, posts,
                   tweetsIA, notes, notified, tweetsDB, pt, sw>>
    /\ UNCHANGED <<cursorVars, sessionVars, outcomeVars>>

(***************************************************************************)
(* runWorker: one cycle of the feed loop.                                  *)
(***************************************************************************)
FeedSnapshot ==
    /\ pt["feed"].pc = "cycle"
    /\ tweetsDB' = Ids(posts)
    /\ pt' = [pt EXCEPT !["feed"].pc = "scrape"]
    /\ UNCHANGED <<now, lastAICallTime, aiLimiter, orphans, aiCalls,
                   posts, tweetsIA, notes, notified, sw>>
    /\ UNCHANGED <<cursorVars, sessionVars, outcomeVars>>

FeedScrape(cands) ==
    /\ pt["feed"].pc = "scrape"
    /\ InOrderOfAppearance(cands)
    /\ pt' = [pt EXCEPT !["feed"] =
                 Resume("feed", SelectSeq(cands, LAMBDA id : id \notin tweetsDB))]
    /\ tweetsDB' = {}
    /\ UNCHANGED <<now, lastAICallTime, aiLimiter, orphans, aiCalls,
                   posts, tweetsIA, notes, notified, sw>>
    /\ UNCHANGED <<cursorVars, sessionVars, outcomeVars>>

(***************************************************************************)
(* processUserAndMentions: the scraped profile posts and mentions are      *)
(* handed to processTweet one by one; the finally block starts             *)
(* retryFailedAI(5) without awaiting it and closes the page.               *)
(***************************************************************************)
DeepScan(cands) ==
    /\ pt["deep"].pc = "idle"
    /\ InOrderOfAppearance(cands)
    /\ pt' = [pt EXCEPT !["deep"] = Resume("deep", cands)]
    /\ UNCHANGED <<now, lastAICallTime, aiLimiter, orphans, aiCalls,
                   posts, tweetsIA, notes, notified, tweetsDB, sw>>
    /\ UNCHANGED <<cursorVars, sessionVars, outcomeVars>>

DeepFinally(s) ==
    /\ pt["deep"].pc = "finally"
    /\ FirstIdle(s)
    /\ sw' = [sw EXCEPT ![s].pc = "find"]
    /\ pt' = [pt EXCEPT !["deep"] = PtAt("idle")]
    /\ UNCHANGED <<now, lastAICallTime, aiLimiter, orphans, aiCalls,
                   posts, tweetsIA, notes, notified, tweetsDB>>
    /\ UNCHANGED <<cursorVars, sessionVars, outcomeVars>>

(***************************************************************************)
(* processTweet.                                                           *)
(***************************************************************************)
FindOne(p) ==
    /\ pt[p].pc = "findOne"
    /\ pt' = [pt EXCEPT ![p] =
                 IF PostFindOne(posts, pt[p].id)
                 THEN Resume(p, pt[p].queue)
                 ELSE [pt[p] EXCEPT !.pc = "save"]]
    /\ UNCHANGED <<now, lastAICallTime, aiLimiter, orphans, aiCalls,
                   posts, tweetsIA, notes, notified, tweetsDB, sw>>
    /\ UNCHANGED <<cursorVars, sessionVars, outcomeVars>>

\* post.save(), then the rate gate up to its await
Save(p) ==
    /\ pt[p].pc = "save"
    /\ IF PostUnique(posts, pt[p].id)
       THEN /\ pt' = [pt EXCEPT ![p] = Resume(p, pt[p].queue)]
            /\ UNCHANGED <<posts, lastAICallTime, aiLimiter, aiCalls>>
       ELSE /\ posts' = Append(posts, [tweetId |-> pt[p].id,
                                       status |-> "unprocessed"])
            /\ IF TimeToWait > 0
               THEN /\ pt' = [pt EXCEPT ![p].pc = "gate",
                                        ![p].wakeAt = now + TimeToWait]
                    /\ UNCHANGED <<lastAICallTime, aiLimiter, aiCalls>>
               ELSE /\ lastAICallTime' = now
                    /\ ApplyLimiter(LimiterEnter(p, pt))
    /\ UNCHANGED <<now, orphans, tweetsIA, notes, notified, tweetsDB, sw>>
    /\ UNCHANGED <<cursorVars, sessionVars, outcomeVars>>

\* the setTimeout(timeToWait) has fired
Gate(p) ==
    /\ pt[p].pc = "gate"
    /\ now >= pt[p].wakeAt
    /\ lastAICallTime' = now
    /\ ApplyLimiter(LimiterEnter(p, [pt EXCEPT ![p].wakeAt = 0]))
    /\ UNCHANGED <<now, orphans, posts, tweetsIA, notes, notified, tweetsDB,
                   sw>>
    /\ UNCHANGED <<cursorVars, sessionVars, outcomeVars>>

\* classifyTweet answered before the 20 s timer; for a category that is
\* routed, sendToDiscord is called with the result (it touches nothing but
\* the Discord channel, so it is taken in the same step)
ClassifyDone(p, category) ==
    /\ pt[p].pc = "classify"
    /\ now < pt[p].deadline
    /\ IF Routed(category)
       THEN /\ NotesSent < MaxNotes
            /\ notes' = SendToDiscord(notes, SendChannel(category))
            /\ notified' = [notified EXCEPT ![pt[p].id] = @ + 1]
       ELSE UNCHANGED <<notes, notified>>
    /\ ApplyLimiter(LimiterRelease(
           [pt EXCEPT ![p].pc = AfterAnalysis(category), ![p].deadline = 0]))
    /\ UNCHANGED <<now, lastAICallTime, orphans, posts, tweetsIA, tweetsDB, sw>>
    /\ UNCHANGED <<cursorVars, sessionVars, outcomeVars>>

\* the 20 s timer won the race: the fallback is the result, the call goes on
ClassifyTimeout(p) ==
    /\ pt[p].pc = "classify"
    /\ now >= pt[p].deadline
    /\ orphans' = orphans + 1
    /\ ApplyLimiter(LimiterRelease(
           [pt EXCEPT ![p].pc = AfterAnalysis("error"), ![p].deadline = 0]))
    /\ UNCHANGED <<now, lastAICallTime, posts, tweetsIA, notes, notified,
                   tweetsDB, sw>>
    /\ UNCHANGED <<cursorVars, sessionVars, outcomeVars>>

\* a classifyTweet call abandoned by withTimeout completes
OrphanDone ==
    /\ orphans > 0
    /\ orphans' = orphans - 1
    /\ UNCHANGED <<now, lastAICallTime, aiLimiter, aiCalls, posts,
                   tweetsIA, notes, notified, tweetsDB, pt, sw>>
    /\ UNCHANGED <<cursorVars, sessionVars, outcomeVars>>

SetUnprocessed(p) ==
    /\ pt[p].pc = "setUnprocessed"
    /\ posts' = FindOneAndUpdate(posts, pt[p].id, "unprocessed")
    /\ pt' = [pt EXCEPT ![p] = Resume(p, pt[p].queue)]
    /\ UNCHANGED <<now, lastAICallTime, aiLimiter, orphans, aiCalls,
                   tweetsIA, notes, notified, tweetsDB, sw>>
    /\ UNCHANGED <<cursorVars, sessionVars, outcomeVars>>

SetDiscarded(p) ==
    /\ pt[p].pc = "setDiscarded"
    /\ posts' = FindOneAndUpdate(posts, pt[p].id, "discarded")
    /\ pt' = [pt EXCEPT ![p] = Resume(p, pt[p].queue)]
    /\ UNCHANGED <<now, lastAICallTime, aiLimiter, orphans, aiCalls,
                   tweetsIA, notes, notified, tweetsDB, sw>>
    /\ UNCHANGED <<cursorVars, sessionVars, outcomeVars>>

SaveIA(p) ==
    /\ pt[p].pc = "saveIA"
    /\ IF TweetIAUnique(tweetsIA, pt[p].id)
       THEN /\ pt' = [pt EXCEPT ![p] = Resume(p, pt[p].queue)]
            /\ UNCHANGED tweetsIA
       ELSE /\ tweetsIA' = Append(tweetsIA, [tweetId |-> pt[p].id])
            /\ pt' = [pt EXCEPT ![p].pc = "setProcessed"]
    /\ UNCHANGED <<now, lastAICallTime, aiLimiter, orphans, aiCalls,
                   posts, notes, notified, tweetsDB, sw>>
    /\ UNCHANGED <<cursorVars, sessionVars, outcomeVars>>

SetProcessed(p) ==
    /\ pt[p].pc = "setProcessed"
    /\ posts' = FindOneAndUpdate(posts, pt[p].id, "processed")
    /\ pt' = [pt EXCEPT ![p] = Resume(p, pt[p].queue)]
    /\ UNCHANGED <<now, lastAICallTime, aiLimiter, orphans, aiCalls,
                   tweetsIA, notes, notified, tweetsDB, sw>>
    /\ UNCHANGED <<cursorVars, sessionVars, outcomeVars>>

(***************************************************************************)
(* retryFailedAI(limit): classifyTweet is called directly, outside the     *)
(* limiter and the rate gate, under a 15 s withTimeout.                    *)
(***************************************************************************)
SwNext(pend) ==
    IF pend = <<>> THEN SwIdle
    ELSE [pc |-> "classify", id |-> Head(pend), pending |-> Tail(pend),
          deadline |-> now + AI_TIMEOUT_MS]

SwCalls(pend) ==
    IF pend = <<>> THEN aiCalls ELSE LogCall(aiCalls, now)

SweepFind(s) ==
    /\ sw[s].pc = "find"
    /\ sw' = [sw EXCEPT ![s] = SwNext(FindUnprocessed(posts, SWEEP_LIMIT))]
    /\ aiCalls' = SwCalls(FindUnprocessed(posts, SWEEP_LIMIT))
    /\ UNCHANGED <<now, lastAICallTime, aiLimiter, orphans, posts, tweetsIA,
                   notes, notified, tweetsDB, pt>>
    /\ UNCHANGED <<cursorVars, sessionVars, outcomeVars>>

SweepClassifyDone(s, category) ==
    /\ sw[s].pc = "classify"
    /\ now < sw[s].deadline
    /\ IF Routed(category)
       THEN /\ NotesSent < MaxNotes
            /\ notes' = SendToDiscord(notes, SendChannel(category))
            /\ notified' = [notified EXCEPT ![sw[s].id] = @ + 1]
       ELSE UNCHANGED <<notes, notified>>
    /\ IF category = "error"
       THEN /\ sw' = [sw EXCEPT ![s] = SwNext(sw[s].pending)]
            /\ aiCalls' = SwCalls(sw[s].pending)
       ELSE /\ sw' = [sw EXCEPT ![s].pc = AfterAnalysis(category),
                                ![s].deadline = 0]
            /\ UNCHANGED aiCalls
    /\ UNCHANGED <<now, lastAICallTime, aiLimiter, orphans, posts, tweetsIA,
                   tweetsDB, pt>>
    /\ UNCHANGED <<cursorVars, sessionVars, outcomeVars>>

SweepClassifyTimeout(s) ==
    /\ sw[s].pc = "classify"
    /\ now >= sw[s].deadline
    /\ orphans' = orphans + 1
    /\ sw' = [sw EXCEPT ![s] = SwNext(sw[s].pending)]
    /\ aiCalls' = SwCalls(sw[s].pending)
    /\ UNCHANGED <<now, lastAICallTime, aiLimiter, posts, tweetsIA, notes,
                   notified,
                   tweetsDB, pt>>
    /\ UNCHANGED <<cursorVars, sessionVars, outcomeVars>>

\* status discarded, then `return` leaves retryFailedAI
SweepSetDiscarded(s) ==
    /\ sw[s].pc = "setDiscarded"
    /\ posts' = FindOneAndUpdate(posts, sw[s].id, "discarded")
    /\ sw' = [sw EXCEPT ![s] = SwIdle]
    /\ UNCHANGED <<now, lastAICallTime, aiLimiter, orphans, aiCalls,
                   tweetsIA, notes, notified, tweetsDB, pt>>
    /\ UNCHANGED <<cursorVars, sessionVars, outcomeVars>>

SweepSaveIA(s) ==
    /\ sw[s].pc = "saveIA"
    /\ IF TweetIAUnique(tweetsIA, sw[s].id)
       THEN /\ sw' = [sw EXCEPT ![s] = SwNext(sw[s].pending)]
            /\ aiCalls' = SwCalls(sw[s].pending)
            /\ UNCHANGED tweetsIA
       ELSE /\ tweetsIA' = Append(tweetsIA, [tweetId |-> sw[s].id])
            /\ sw' = [sw EXCEPT ![s].pc = "setProcessed"]
            /\ UNCHANGED aiCalls
    /\ UNCHANGED <<now, lastAICallTime, aiLimiter, orphans, posts, notes,
                   notified,
                   tweetsDB, pt>>
    /\ UNCHANGED <<cursorVars, sessionVars, outcomeVars>>

SweepSetProcessed(s) ==
    /\ sw[s].pc = "setProcessed"
    /\ posts' = FindOneAndUpdate(posts, sw[s].id, "processed")
    /\ sw' = [sw EXCEPT ![s] = SwNext(sw[s].pending)]
    /\ aiCalls' = SwCalls(sw[s].pending)
    /\ UNCHANGED <<now, lastAICallTime, aiLimiter, orphans, tweetsIA, notes,
                   notified,
                   tweetsDB, pt>>
    /\ UNCHANGED <<cursorVars, sessionVars, outcomeVars>>

(***************************************************************************)
(* The rotation cron job of startWorker.  The callback reads the accounts, *)
(* reads or creates the cursor, awaits processUserAndMentions for the      *)
(* selected account and stores the advanced cursor.  Of the deep-scan the  *)
(* callback sees only whether it returns or throws; what the deep-scan     *)
(* does to the collections is the subject of SpecPipeline.                 *)
(***************************************************************************)
Workers == 1..MaxWorkers

UserLists ==
    UNION {[1..n -> [username : 1..MaxUsers, active : BOOLEAN]] : n \in 0..MaxUsers}

\* usernames are unique and _id order is the order of creation
UserCollections ==
    {l \in UserLists : \A i \in DOMAIN l : l[i].username = i}

\* User.find({}).sort({ _id: 1 }) mapped to { username }; [] on a store error
GetAllUsersFromDb(coll, dbOk) ==
    IF dbOk THEN [i \in DOMAIN coll |-> coll[i].username] ELSE <<>>

TickIdle == [pc |-> "idle", allUsers |-> <<>>, nextIndex |-> 0]

\* findOneAndUpdate({ name }, { $setOnInsert: { lastProcessedIndex: 0 } },
\*                  { upsert: true, new: true })
Upsert(state) == IF state = -1 THEN 0 ELSE state

\* allUsers[nextIndex] is an account (JavaScript indexes from 0)
SelectedOff(allUsers, nextIndex) == TRUE
Selected(allUsers, nextIndex) == nextIndex < Len(allUsers)

\* processUserAndMentions: a failure to open the page or to scrape is caught
\* inside; page.close() of the finally block is not
DeepScanThrows(opened, closeOk) == opened /\ ~closeOk

LogScan(log, e) ==
    IF Len(log) > MaxUsers THEN Append(Tail(log), e) ELSE Append(log, e)

\* if (allUsers?.length === 0) return;
NoUsersOff(allUsers) == FALSE
NoUsers(allUsers) == Len(allUsers) = 0

\* the callback starts: it reads the accounts and returns when there are none
CronCallback(dbOk) ==
    IF NoUsers(GetAllUsersFromDb(users, dbOk))
    THEN /\ tick' = TickIdle
         /\ scanLog' = LogScan(scanLog, [list |-> <<>>, idx |-> -1])
    ELSE /\ tick' = [pc |-> "state",
                     allUsers |-> GetAllUsersFromDb(users, dbOk),
                     nextIndex |-> 0]
         /\ UNCHANGED scanLog

CronFire(dbOk) ==
    /\ tick.pc = "idle"
    /\ CronCallback(dbOk)
    /\ UNCHANGED <<users, scraperState, late>>
    /\ UNCHANGED <<pipeVars, sessionVars, outcomeVars>>

TickState ==
    /\ tick.pc = "state"
    /\ IF Selected(tick.allUsers, Upsert(scraperState))
       THEN /\ scraperState' = Upsert(scraperState)
            /\ tick' = [tick EXCEPT !.pc = "scan",
                                    !.nextIndex = Upsert(scraperState)]
            /\ scanLog' = LogScan(scanLog, [list |-> tick.allUsers,
                                            idx |-> Upsert(scraperState)])
       ELSE /\ scraperState' = 0
            /\ tick' = TickIdle
            /\ scanLog' = LogScan(scanLog, [list |-> tick.allUsers, idx |-> -1])
    /\ UNCHANGED <<users, late>>
    /\ UNCHANGED <<pipeVars, sessionVars, outcomeVars>>

TickScan(opened, closeOk) ==
    /\ tick.pc = "scan"
    /\ IF DeepScanThrows(opened, closeOk)
       THEN UNCHANGED scraperState
       ELSE scraperState' = (tick.nextIndex + 1) % Len(tick.allUsers)
    /\ tick' = TickIdle
    /\ UNCHANGED <<users, scanLog, late>>
    /\ UNCHANGED <<pipeVars, sessionVars, outcomeVars>>

\* POST /users: user.save() appends an account with an unused username
UserInsert(username, active) ==
    /\ Len(scanLog) < MaxChurnTicks
    /\ Len(users) < MaxUsers
    /\ \A i \in DOMAIN users : users[i].username # username
    /\ \A u \in 1..(username - 1) : \E i \in DOMAIN users : users[i].username = u
    /\ users' = Append(users, [username |-> username, active |-> active])
    /\ UNCHANGED <<scraperState, tick, scanLog, late>>
    /\ UNCHANGED <<pipeVars, sessionVars, outcomeVars>>

\* DELETE /users/:id: findByIdAndDelete removes the account at position k
UserDelete(k) ==
    /\ Len(scanLog) < MaxChurnTicks
    /\ k \in DOMAIN users
    /\ users' = SubSeq(users, 1, k - 1) \o SubSeq(users, k + 1, Len(users))
    /\ UNCHANGED <<scraperState, tick, scanLog, late>>
    /\ UNCHANGED <<pipeVars, sessionVars, outcomeVars>>

\* cron.schedule calls the callback at every match of the expression: the
\* next call comes while the earlier one still awaits processUserAndMentions
CronOverlap(dbOk) ==
    /\ tick.pc = "scan"
    /\ late.pc = "idle"
    /\ late' = tick
    /\ CronCallback(dbOk)
    /\ UNCHANGED <<users, scraperState>>
    /\ UNCHANGED <<pipeVars, sessionVars, outcomeVars>>

\* the deep-scan of the earlier callback ends: it stores its own advance
LateScan(opened, closeOk) ==
    /\ late.pc = "scan"
    /\ IF DeepScanThrows(opened, closeOk)
       THEN UNCHANGED scraperState
       ELSE scraperState' = (late.nextIndex + 1) % Len(late.allUsers)
    /\ late' = TickIdle
    /\ UNCHANGED <<users, tick, scanLog>>
    /\ UNCHANGED <<pipeVars, sessionVars, outcomeVars>>

(***************************************************************************)
(* setupPersistentBrowser and its caller startWorker.                      *)
(***************************************************************************)
NoPage == [subscribe |-> FALSE, loggedOut |-> FALSE]

\* what handleLogin has captured: the two cookies and the bearer token
Tokens == [auth_token : BOOLEAN, ct0 : BOOLEAN, bearer_token : BOOLEAN]

NoTokens == [auth_token |-> FALSE, ct0 |-> FALSE, bearer_token |-> FALSE]

\* if (!newAuthToken || !newCt0 || !newBearerToken) throw
Complete(got) == got.auth_token /\ got.ct0 /\ got.bearer_token

WkAt(pcv) == [pc |-> pcv, ret |-> "none", page |-> NoPage, got |-> NoTokens]

SetupPcs == {"read", "launch", "validate", "inspect", "relaunch", "login"}

\* the guard on isLoggingIn at the top of setupPersistentBrowser
AlreadyRunningOff(flag) == FALSE
AlreadyRunning(flag) == flag

\* readCredentials(), null when the file is absent or auth_token is empty
ReadCredentials(file) == file

\* checkAndInjectCredentials after the page is loaded: the subscribe button
\* is tested first, then the login link
CheckOutcomeLoginFirst(subscribe, loggedOut) ==
    IF loggedOut THEN "false" ELSE IF subscribe THEN "premium" ELSE "true"
CheckOutcome(subscribe, loggedOut) ==
    IF subscribe THEN "premium" ELSE IF loggedOut THEN "false" ELSE "true"

\* browserInstance === 'premium' in startWorker
IsPremiumOff(ret) == FALSE
IsPremium(ret) == ret = "premium"

RestartTimer(i) == [by |-> i, delay |-> RESTART_DELAY]

\* the catch and finally blocks of setupPersistentBrowser
SetupFails(i) ==
    /\ browserInstance' = "null"
    /\ currentCredentials' = 0
    /\ isLoggingIn' = FALSE
    /\ wk' = [wk EXCEPT ![i].pc = "returned", ![i].ret = "throw"]

\* "Session invalid or expired": the browser is closed, a new one is launched
SetupInvalid(i) ==
    /\ browserInstance' = "closed"
    /\ wk' = [wk EXCEPT ![i].pc = "relaunch"]
    /\ UNCHANGED <<isLoggingIn, currentCredentials>>

WorkerStart(i) ==
    /\ wk[i].pc = "init"
    /\ wk' = [wk EXCEPT ![i] = WkAt("setup")]
    /\ UNCHANGED <<isLoggingIn, currentCredentials, browserInstance, credFile,
                   logins, timers, restarts, errorsSent, feeds, crons>>
    /\ UNCHANGED feedCrashes
    /\ UNCHANGED <<pipeVars, cursorVars, outcomeVars>>

TimerFire(t) ==
    /\ t \in timers
    /\ restarts < MaxRestarts
    /\ timers' = timers \ {t}
    /\ restarts' = restarts + 1
    /\ wk' = [wk EXCEPT ![t.by] = WkAt("setup")]
    /\ UNCHANGED <<isLoggingIn, currentCredentials, browserInstance, credFile,
                   logins, errorsSent, feeds, crons>>
    /\ UNCHANGED feedCrashes
    /\ UNCHANGED <<pipeVars, cursorVars, outcomeVars>>

SetupEnter(i) ==
    /\ wk[i].pc = "setup"
    /\ IF AlreadyRunning(isLoggingIn)
       THEN /\ wk' = [wk EXCEPT ![i].pc = "returned", ![i].ret = "null"]
            /\ UNCHANGED isLoggingIn
       ELSE /\ isLoggingIn' = TRUE
            /\ wk' = [wk EXCEPT ![i].pc = "read"]
    /\ UNCHANGED <<currentCredentials, browserInstance, credFile, logins,
                   timers, restarts, errorsSent, feeds, crons>>
    /\ UNCHANGED feedCrashes
    /\ UNCHANGED <<pipeVars, cursorVars, outcomeVars>>

SetupRead(i) ==
    /\ wk[i].pc = "read"
    /\ currentCredentials' = ReadCredentials(credFile)
    /\ wk' = [wk EXCEPT ![i].pc = IF browserInstance = "null" THEN "launch"
                                  ELSE "validate"]
    /\ UNCHANGED <<isLoggingIn, browserInstance, credFile, logins, timers,
                   restarts, errorsSent, feeds, crons>>
    /\ UNCHANGED feedCrashes
    /\ UNCHANGED <<pipeVars, cursorVars, outcomeVars>>

SetupLaunch(i, ok) ==
    /\ wk[i].pc = "launch"
    /\ IF ok
       THEN /\ browserInstance' = "open"
            /\ wk' = [wk EXCEPT ![i].pc = "validate"]
            /\ UNCHANGED <<isLoggingIn, currentCredentials>>
       ELSE SetupFails(i)
    /\ UNCHANGED <<credFile, logins, timers, restarts, errorsSent, feeds, crons>>
    /\ UNCHANGED feedCrashes
    /\ UNCHANGED <<pipeVars, cursorVars, outcomeVars>>

\* checkAndInjectCredentials up to the settle delay after page.goto
SetupValidate(i, ok, subscribe, loggedOut) ==
    /\ wk[i].pc = "validate"
    /\ IF currentCredentials = 0 \/ browserInstance = "closed" \/ ~ok
       THEN SetupInvalid(i)
       ELSE /\ wk' = [wk EXCEPT ![i].pc = "inspect",
                                ![i].page = [subscribe |-> subscribe,
                                             loggedOut |-> loggedOut]]
            /\ UNCHANGED <<isLoggingIn, currentCredentials, browserInstance>>
    /\ UNCHANGED <<credFile, logins, timers, restarts, errorsSent, feeds, crons>>
    /\ UNCHANGED feedCrashes
    /\ UNCHANGED <<pipeVars, cursorVars, outcomeVars>>

\* the two page.$ queries and what setupPersistentBrowser does with the result
SetupInspect(i, ok) ==
    /\ wk[i].pc = "inspect"
    /\ IF CheckOutcome(wk[i].page.subscribe, wk[i].page.loggedOut) = "premium"
       THEN /\ browserInstance' = "closed"
            /\ isLoggingIn' = FALSE
            /\ wk' = [wk EXCEPT ![i].pc = "returned", ![i].ret = "premium"]
            /\ UNCHANGED currentCredentials
       ELSE IF CheckOutcome(wk[i].page.subscribe, wk[i].page.loggedOut) = "true" /\ ok
       THEN /\ isLoggingIn' = FALSE
            /\ wk' = [wk EXCEPT ![i].pc = "returned", ![i].ret = "browser"]
            /\ UNCHANGED <<currentCredentials, browserInstance>>
       ELSE SetupInvalid(i)
    /\ UNCHANGED <<credFile, logins, timers, restarts, errorsSent, feeds, crons>>
    /\ UNCHANGED feedCrashes
    /\ UNCHANGED <<pipeVars, cursorVars, outcomeVars>>

SetupRelaunch(i, ok) ==
    /\ wk[i].pc = "relaunch"
    /\ IF ok
       THEN /\ browserInstance' = "open"
            /\ wk' = [wk EXCEPT ![i].pc = "login"]
            /\ UNCHANGED <<isLoggingIn, currentCredentials>>
       ELSE SetupFails(i)
    /\ UNCHANGED <<credFile, logins, timers, restarts, errorsSent, feeds, crons>>
    /\ UNCHANGED feedCrashes
    /\ UNCHANGED <<pipeVars, cursorVars, outcomeVars>>

\* handleLogin: the form is driven (ok), the tokens are captured (got) and
\* the triple of this login is handed to writeCredentials, which logs a
\* failure of mkdir or writeFile and returns; or an exception
SetupLogin(i, ok, got, written) ==
    /\ wk[i].pc = "login"
    /\ logins < MaxLogins
    /\ logins' = logins + 1
    /\ IF ok /\ Complete(got)
       THEN /\ credFile' = IF written THEN logins + 2 ELSE credFile
            /\ currentCredentials' = logins + 2
            /\ isLoggingIn' = FALSE
            /\ wk' = [wk EXCEPT ![i].pc = "returned", ![i].ret = "browser",
                                ![i].got = got]
            /\ UNCHANGED browserInstance
       ELSE /\ SetupFails(i)
            /\ UNCHANGED credFile
    /\ UNCHANGED <<timers, restarts, errorsSent, feeds, crons>>
    /\ UNCHANGED feedCrashes
    /\ UNCHANGED <<pipeVars, cursorVars, outcomeVars>>

\* startWorker after `await setupPersistentBrowser()`
WorkerHandle(i) ==
    /\ wk[i].pc = "returned"
    /\ wk' = [wk EXCEPT ![i].pc = "done"]
    /\ IF wk[i].ret = "throw" \/ IsPremium(wk[i].ret)
       THEN /\ errorsSent' = errorsSent + 1
            /\ timers' = timers \cup {RestartTimer(i)}
            /\ UNCHANGED <<feeds, crons>>
       ELSE IF wk[i].ret # "null"
       THEN /\ feeds' = feeds + 1
            /\ crons' = crons + 1
            /\ UNCHANGED <<errorsSent, timers>>
       ELSE UNCHANGED <<errorsSent, timers, feeds, crons>>
    /\ UNCHANGED <<isLoggingIn, currentCredentials, browserInstance, credFile,
                   logins, restarts>>
    /\ UNCHANGED feedCrashes
    /\ UNCHANGED <<pipeVars, cursorVars, outcomeVars>>

\* The feed loop of runWorker throws: its catch closes the page and throws
\* again, so the promise of runWorker rejects.  startWorker called
\* runWorker(browserInstance) without await and without .catch, so the
\* rejection is outside its try block and nothing handles it.  What the
\* runtime does with an unhandled rejection depends on its version and
\* flags: it reports it and goes on, or it ends the process.
FeedLoopThrows(terminates) ==
    /\ feedCrashes < feeds
    /\ feedCrashes' = feedCrashes + 1
    /\ IF terminates
       THEN /\ wk' = [i \in Workers |-> WkAt("exited")]
            /\ timers' = {}
       ELSE UNCHANGED <<wk, timers>>
    /\ UNCHANGED <<isLoggingIn, currentCredentials, browserInstance, credFile,
                   logins, restarts, errorsSent, feeds, crons>>
    /\ UNCHANGED <<pipeVars, cursorVars, outcomeVars>>

(***************************************************************************)
(* One scan in detail.  The candidates of one scan go through processTweet *)
(* one after the other, with the data the outcome depends on: whether the  *)
(* post has text (a feed post with media only has none), the               *)
(* category and the contracts of the classifier answer, the result of each *)
(* market lookup and the failure of any store operation.  Then the finally *)
(* block starts retryFailedAI(5) over the store, which may hold posts left *)
(* unprocessed by earlier runs.  In this part a Post document carries      *)
(* whether it has text and a TweetsIA document the size of its enriched    *)
(* array; the messages are counted per invocation.                         *)
(***************************************************************************)
\* t.scrapedFor: processUserAndMentions sets 'profile' or 'mention' on the
\* posts of the two scrapers, which drop the cards without text; a post of
\* the feed has no scrapedFor member
Untagged == "none"

Candidates ==
    {c \in [id : 1..MaxCands, text : BOOLEAN,
            scrapedFor : {"profile", "mention", Untagged}] :
        ~c.text => c.scrapedFor = Untagged}

\* scrapedFor of the Post document that processTweet builds
PostScrapedFor(tag) == IF tag = Untagged THEN "feed" ELSE tag

\* dtoTweetIA, in processTweet and in retryFailedAI: the object literal has
\* no scrapedFor member
DtoScrapedForCopied(tag) == tag
DtoScrapedFor(tag) == Untagged

\* default: 'feed' on TweetsIA.scrapedFor
TweetIADefault(tag) == IF tag = Untagged THEN "feed" ELSE tag

CandSeqs == UNION {[1..n -> Candidates] : n \in 0..MaxCands}

\* one category for each way through the switch: a case of the 'alerts'
\* group, a case of the 'general' group, the default, and not-relevant
OutcomeCategories == {"Airdrop", "News", "memecoin", "not-relevant"}

\* what classifyTweet resolves to
Answers == [category : OutcomeCategories, contracts : 0..MaxContracts]

\* getTokenDataFromDexScreener: the best pair; null after a message on the
\* error channel when there are no pairs; null when the request fails.  A
\* pair without its volume object makes the caller throw at volume.h24.
LookupResults == {"pair", "none", "fail", "malformed"}

Backlog(n) ==
    [i \in 1..n |-> [tweetId |-> MaxCands + i, status |-> "unprocessed",
                     text |-> TRUE,
                     scrapedFor |-> IF i % 2 = 1 THEN "mention" ELSE "feed"]]

JobIdle ==
    [pc |-> "idle", queue |-> <<>>, id |-> 0, text |-> FALSE, cat |-> "none",
     contracts |-> 0, left |-> 0, pairs |-> 0, fresh |-> FALSE,
     fault |-> FALSE, caught |-> FALSE, timedOut |-> {}, notes |-> NoNotes,
     errs |-> 0, resps |-> <<>>, attempts |-> 0, waits |-> <<>>,
     lost |-> FALSE, scrapedFor |-> Untagged]

RetryIdle ==
    [pc |-> "idle", batch |-> <<>>, pending |-> <<>>, attempted |-> {},
     id |-> 0, text |-> FALSE, cat |-> "none", contracts |-> 0, left |-> 0,
     pairs |-> 0, fault |-> FALSE, notes |-> NoNotes, errs |-> 0,
     scrapedFor |-> Untagged]

\* the try block around the body of processTweet: a failing step is logged
\* and the invocation returns
TryCatchOff(step) == "threw"
TryCatch(step) == "returned"

\* required: true on TweetsIA.text: an empty or missing text is refused
TextRequired(text) == text

\* after the enrichment loop: the not-relevant test, else the dto and the switch
AfterEnrich(category) ==
    IF category = "not-relevant" THEN "setDiscarded" ELSE "notify"

\* the classifier answered: the enrichment loop runs first when the answer
\* has contracts, whatever its category
Analysed(rec, answer) ==
    [rec EXCEPT !.cat = answer.category,
                !.contracts = answer.contracts,
                !.left = answer.contracts,
                !.pc = IF answer.contracts > 0 THEN "lookup"
                       ELSE AfterEnrich(answer.category)]

\* one iteration of the enrichment loop
Enriched(rec, res) ==
    [rec EXCEPT !.left = @ - 1,
                !.pairs = IF res = "pair" THEN @ + 1 ELSE @,
                !.errs = IF res = "none" THEN @ + 1 ELSE @,
                !.pc = IF rec.left = 1 THEN AfterEnrich(rec.cat) ELSE "lookup"]

JobFails(step) ==
    [job EXCEPT !.pc = TryCatch(step), !.fault = TRUE, !.caught = TRUE]

JobReturns == [job EXCEPT !.pc = "returned"]

OutcomeFrame ==
    UNCHANGED <<now, lastAICallTime, aiLimiter, orphans, aiCalls, notes,
                notified,
                tweetsDB, pt, sw, cursorVars, sessionVars, scan, cycle,
                scroll>>

\* what generateContent does in one call: it answers with a category, or
\* it rejects with status 503 (overload) or with another error
ProviderResponses == OutcomeCategories \cup {"503", "other"}

\* the responses of the calls that one retryWithBackoff can make
ResponseSeqs == [1..(RETRIES + 1) -> ProviderResponses]

\* classifyTweet: a rejection of generateContent is caught and the answer
\* is { category: "not-relevant", tags: [], contracts: [] }
ClassifyTweet(resp) ==
    [rejects |-> FALSE, status |-> 200,
     category |-> IF resp \in OutcomeCategories THEN resp ELSE "not-relevant"]

\* retryWithBackoff(() => classifyTweet(...), retries, delay), at the call
\* that gets response i
RECURSIVE RetryWithBackoff(_, _, _, _)
RetryWithBackoff(resps, i, retries, delay) ==
    IF ~ClassifyTweet(resps[i]).rejects
    THEN [rejected |-> FALSE, attempts |-> i, waits |-> <<>>,
          category |-> ClassifyTweet(resps[i]).category]
    ELSE IF retries > 0 /\ ClassifyTweet(resps[i]).status = 503
    THEN [RetryWithBackoff(resps, i + 1, retries - 1, delay * 2)
             EXCEPT !.waits = <<delay>> \o @]
    ELSE [rejected |-> TRUE, attempts |-> i, waits |-> <<>>,
          category |-> "none"]

\* the classifier call of processTweet settles before the 20 s timer
JobCall(resps) ==
    /\ job.pc = "classify"
    /\ LET out == RetryWithBackoff(resps, 1, RETRIES, INITIAL_DELAY)
           seen == [r \in {job, JobFails("classify")} |->
                       [r EXCEPT !.resps = resps,
                                 !.attempts = out.attempts,
                                 !.waits = out.waits]]
       IN  job' = IF out.rejected THEN seen[JobFails("classify")]
                  ELSE Analysed(seen[job],
                                [category |-> out.category, contracts |-> 0])
    /\ UNCHANGED <<posts, tweetsIA, retry>>
    /\ OutcomeFrame

\* the scrape of the deep-scan has returned its posts
ScanStart(cands) ==
    /\ job.pc = "idle"
    /\ job' = [JobIdle EXCEPT !.pc = "next", !.queue = cands]
    /\ UNCHANGED <<posts, tweetsIA, retry>>
    /\ OutcomeFrame

\* the for loop: processTweet is called for the next candidate
JobNext ==
    /\ job.pc \in {"next", "returned"}
    /\ job' = IF job.queue = <<>>
              THEN [JobIdle EXCEPT !.pc = "finally",
                                   !.caught = job.caught,
                                   !.timedOut = job.timedOut]
              ELSE [JobIdle EXCEPT !.pc = "findOne",
                                   !.queue = Tail(job.queue),
                                   !.id = Head(job.queue).id,
                                   !.text = Head(job.queue).text,
                                   !.scrapedFor = Head(job.queue).scrapedFor,
                                   !.caught = job.caught,
                                   !.timedOut = job.timedOut]
    /\ UNCHANGED <<posts, tweetsIA, retry>>
    /\ OutcomeFrame

JobFindOne(ok) ==
    /\ job.pc = "findOne"
    /\ job' = IF ~ok THEN JobFails("findOne")
              ELSE IF PostFindOne(posts, job.id) THEN JobReturns
              ELSE [job EXCEPT !.pc = "save"]
    /\ UNCHANGED <<posts, tweetsIA, retry>>
    /\ OutcomeFrame

\* post.save(); the only invocation in flight passes the rate gate and the
\* limiter and calls the classifier
JobSave(ok) ==
    /\ job.pc = "save"
    /\ IF ok /\ ~PostUnique(posts, job.id)
       THEN /\ posts' = Append(posts, [tweetId |-> job.id,
                                       status |-> "unprocessed",
                                       text |-> job.text,
                                       scrapedFor |->
                                           PostScrapedFor(job.scrapedFor)])
            /\ job' = [job EXCEPT !.pc = "classify", !.fresh = TRUE]
       ELSE /\ job' = JobFails("save")
            /\ UNCHANGED posts
    /\ UNCHANGED <<tweetsIA, retry>>
    /\ OutcomeFrame

JobClassify(answer) ==
    /\ job.pc = "classify"
    /\ job' = Analysed(job, answer)
    /\ UNCHANGED <<posts, tweetsIA, retry>>
    /\ OutcomeFrame

\* the 20 s timer wins: the fallback { category: "error" } is the analysis
JobTimeout ==
    /\ job.pc = "classify"
    /\ job' = [job EXCEPT !.cat = "error", !.pc = "setUnprocessed",
                          !.timedOut = @ \cup {job.id}]
    /\ UNCHANGED <<posts, tweetsIA, retry>>
    /\ OutcomeFrame

JobLookup(res) ==
    /\ job.pc = "lookup"
    /\ job' = IF res = "malformed" THEN JobFails("lookup")
              ELSE Enriched(job, res)
    /\ UNCHANGED <<posts, tweetsIA, retry>>
    /\ OutcomeFrame

\* the switch: sendToDiscord catches a rejected axios.post and returns
JobNotify(delivered) ==
    /\ job.pc = "notify"
    /\ job' = [job EXCEPT !.notes = SendToDiscord(@, SendChannel(job.cat)),
                          !.lost = ~delivered,
                          !.pc = "saveIA"]
    /\ UNCHANGED <<posts, tweetsIA, retry>>
    /\ OutcomeFrame

JobSetDiscarded(ok) ==
    /\ job.pc = "setDiscarded"
    /\ IF ok
       THEN /\ posts' = FindOneAndUpdate(posts, job.id, "discarded")
            /\ job' = JobReturns
       ELSE /\ job' = JobFails("setDiscarded")
            /\ UNCHANGED posts
    /\ UNCHANGED <<tweetsIA, retry>>
    /\ OutcomeFrame

\* tweetIA.save() inside the inner try: a refused document is logged and the
\* status update is skipped
JobSaveIA(ok) ==
    /\ job.pc = "saveIA"
    /\ IF ok /\ TextRequired(job.text) /\ ~TweetIAUnique(tweetsIA, job.id)
       THEN /\ tweetsIA' = Append(tweetsIA,
                [tweetId |-> job.id,
                 enriched |-> job.pairs,
                 scrapedFor |-> TweetIADefault(DtoScrapedFor(job.scrapedFor))])
            /\ job' = [job EXCEPT !.pc = "setProcessed"]
       ELSE /\ job' = [job EXCEPT !.pc = "returned",
                                  !.fault = ~ok, !.caught = TRUE]
            /\ UNCHANGED tweetsIA
    /\ UNCHANGED <<posts, retry>>
    /\ OutcomeFrame

JobSetProcessed(ok) ==
    /\ job.pc = "setProcessed"
    /\ IF ok
       THEN /\ posts' = FindOneAndUpdate(posts, job.id, "processed")
            /\ job' = JobReturns
       ELSE /\ job' = [job EXCEPT !.pc = "returned",
                                  !.fault = TRUE, !.caught = TRUE]
            /\ UNCHANGED posts
    /\ UNCHANGED <<tweetsIA, retry>>
    /\ OutcomeFrame

JobSetUnprocessed(ok) ==
    /\ job.pc = "setUnprocessed"
    /\ IF ok
       THEN /\ posts' = FindOneAndUpdate(posts, job.id, "unprocessed")
            /\ job' = JobReturns
       ELSE /\ job' = JobFails("setUnprocessed")
            /\ UNCHANGED posts
    /\ UNCHANGED <<tweetsIA, retry>>
    /\ OutcomeFrame

\* the finally block of processUserAndMentions: retryFailedAI(5)
ScanFinally ==
    /\ job.pc = "finally"
    /\ retry.pc = "idle"
    /\ job' = [job EXCEPT !.pc = "closed"]
    /\ retry' = [RetryIdle EXCEPT !.pc = "find"]
    /\ UNCHANGED <<posts, tweetsIA>>
    /\ OutcomeFrame

\* the for loop of retryFailedAI: classifyTweet is called for the next post
RetryTake(rec) ==
    IF rec.pending = <<>> THEN [rec EXCEPT !.pc = "done"]
    ELSE [RetryIdle EXCEPT !.pc = "classify",
                           !.batch = rec.batch,
                           !.pending = Tail(rec.pending),
                           !.attempted = rec.attempted \cup {Head(rec.pending)},
                           !.id = Head(rec.pending),
                           !.text = posts[FirstMatch(posts, Head(rec.pending))].text,
                           !.scrapedFor =
                               posts[FirstMatch(posts, Head(rec.pending))].scrapedFor]

\* a failure inside the try block of the loop body: the loop goes on
RetryFails == [retry EXCEPT !.pc = "handled", !.fault = TRUE]

RetryFind ==
    /\ retry.pc = "find"
    /\ retry' = RetryTake([retry EXCEPT
                              !.batch = FindUnprocessed(posts, SWEEP_LIMIT),
                              !.pending = FindUnprocessed(posts, SWEEP_LIMIT)])
    /\ UNCHANGED <<posts, tweetsIA, job>>
    /\ OutcomeFrame

RetryNext ==
    /\ retry.pc = "handled"
    /\ retry' = RetryTake(retry)
    /\ UNCHANGED <<posts, tweetsIA, job>>
    /\ OutcomeFrame

RetryClassify(answer) ==
    /\ retry.pc = "classify"
    /\ retry' = Analysed(retry, answer)
    /\ UNCHANGED <<posts, tweetsIA, job>>
    /\ OutcomeFrame

\* the 15 s timer wins: nothing is done for category "error"
RetryTimeout ==
    /\ retry.pc = "classify"
    /\ retry' = [retry EXCEPT !.cat = "error", !.pc = "handled"]
    /\ UNCHANGED <<posts, tweetsIA, job>>
    /\ OutcomeFrame

RetryLookup(res) ==
    /\ retry.pc = "lookup"
    /\ retry' = IF res = "malformed" THEN RetryFails
                ELSE Enriched(retry, res)
    /\ UNCHANGED <<posts, tweetsIA, job>>
    /\ OutcomeFrame

RetryNotify ==
    /\ retry.pc = "notify"
    /\ retry' = [retry EXCEPT
                    !.notes = SendToDiscord(@, SendChannel(retry.cat)),
                    !.pc = "saveIA"]
    /\ UNCHANGED <<posts, tweetsIA, job>>
    /\ OutcomeFrame

\* status discarded, then `return`: retryFailedAI is left
RetrySetDiscarded(ok) ==
    /\ retry.pc = "setDiscarded"
    /\ IF ok
       THEN /\ posts' = FindOneAndUpdate(posts, retry.id, "discarded")
            /\ retry' = [retry EXCEPT !.pc = "done"]
       ELSE /\ retry' = RetryFails
            /\ UNCHANGED posts
    /\ UNCHANGED <<tweetsIA, job>>
    /\ OutcomeFrame

RetrySaveIA(ok) ==
    /\ retry.pc = "saveIA"
    /\ IF ok /\ TextRequired(retry.text) /\ ~TweetIAUnique(tweetsIA, retry.id)
       THEN /\ tweetsIA' = Append(tweetsIA,
                [tweetId |-> retry.id,
                 enriched |-> retry.pairs,
                 scrapedFor |->
                     TweetIADefault(DtoScrapedFor(retry.scrapedFor))])
            /\ retry' = [retry EXCEPT !.pc = "setProcessed"]
       ELSE /\ retry' = [retry EXCEPT !.pc = "handled", !.fault = ~ok]
            /\ UNCHANGED tweetsIA
    /\ UNCHANGED <<posts, job>>
    /\ OutcomeFrame

RetrySetProcessed(ok) ==
    /\ retry.pc = "setProcessed"
    /\ IF ok
       THEN /\ posts' = FindOneAndUpdate(posts, retry.id, "processed")
            /\ retry' = [retry EXCEPT !.pc = "handled"]
       ELSE /\ retry' = RetryFails
            /\ UNCHANGED posts
    /\ UNCHANGED <<tweetsIA, job>>
    /\ OutcomeFrame

\* the deep-scan has returned and its sweep has ended: the cron job fires
\* again and the next deep-scan starts
NextDeepScan ==
    /\ job.pc = "closed"
    /\ retry.pc = "done"
    /\ job' = [JobIdle EXCEPT !.pc = "next"]
    /\ retry' = RetryIdle
    /\ UNCHANGED <<posts, tweetsIA>>
    /\ OutcomeFrame

(***************************************************************************)
(* processUserAndMentions as the caller of the two scrapers.  An article   *)
(* card of the page is pinned, plain, or without text; a scrape returns    *)
(* the positions of the cards it forwards, or the error variant.  Of       *)
(* processTweet only its call and its return are seen here.                *)
(***************************************************************************)
ArticleKinds == {"pinned", "plain", "notext"}

Pages == UNION {[1..n -> ArticleKinds] : n \in 0..MaxArticles}

\* { error: true, message }, and the array of posts
ErrorVariant == [error |-> TRUE, posts |-> <<>>]

Posts(cards) == [error |-> FALSE, posts |-> cards]

\* positions of the cards that pass a filter, in page order
RECURSIVE Kept(_, _, _)
Kept(arts, i, skip) ==
    IF i > Len(arts) THEN <<>>
    ELSE IF arts[i] \in skip THEN Kept(arts, i + 1, skip)
    ELSE <<i>> \o Kept(arts, i + 1, skip)

\* slice(0, limit), map (null for a card without text), filter(t !== null)
Sample(arts, cards) ==
    SelectSeq(Take(cards, SAMPLE_LIMIT), LAMBDA i : arts[i] # "notext")

\* scrapeUserTweets: the error variant when the page or its first article
\* does not load or no card is left once the pinned ones are removed
ScrapeUserTweetsKeepPinned(loaded, arts) ==
    IF ~loaded \/ Len(arts) = 0 THEN ErrorVariant
    ELSE Posts(Sample(arts, Kept(arts, 1, {})))
ScrapeUserTweets(loaded, arts) ==
    IF ~loaded \/ Len(arts) = 0 \/ Kept(arts, 1, {"pinned"}) = <<>>
    THEN ErrorVariant
    ELSE Posts(Sample(arts, Kept(arts, 1, {"pinned"})))

\* scrapeMentions: no card is removed before the slice
ScrapeMentions(loaded, arts) ==
    IF ~loaded \/ Len(arts) = 0 THEN ErrorVariant
    ELSE Posts(Sample(arts, Kept(arts, 1, {})))

\* if (!('error' in userTweets)): the error variant is stepped over and the
\* function goes on with what follows the loop
AfterErrorFatal(following) == "finally"
AfterError(following) == following

ScanIdle ==
    [pc |-> "idle", page |-> "none", opened |-> 0, closed |-> 0,
     profile |-> "none", mention |-> "none", queue |-> <<>>, busy |-> FALSE,
     forwarded |-> <<>>, sweeps |-> 0]

ScanFrame ==
    UNCHANGED <<pipeVars, cursorVars, sessionVars, job, retry, cycle,
                scroll>>

\* browser.newPage(); a rejection goes to the catch block
ScanOpen(ok) ==
    /\ scan.pc = "idle"
    /\ scan' = IF ok THEN [scan EXCEPT !.pc = "profile", !.page = "open",
                                       !.opened = @ + 1]
               ELSE [scan EXCEPT !.pc = "finally"]
    /\ ScanFrame

\* a scrape has returned: the loop over its posts, or the step over it
Scraped(res, arts, tag, loop, following) ==
    IF res.error
    THEN [scan EXCEPT ![tag] = "error", !.pc = AfterError(following)]
    ELSE [scan EXCEPT ![tag] = "posts", !.pc = loop,
                      !.queue = [k \in DOMAIN res.posts |->
                                    [scrapedFor |-> tag,
                                     card |-> res.posts[k],
                                     kind |-> arts[res.posts[k]]]]]

ScanProfile(loaded, arts) ==
    /\ scan.pc = "profile"
    /\ scan' = Scraped(ScrapeUserTweets(loaded, arts), arts, "profile",
                       "profileLoop", "mentions")
    /\ ScanFrame

ScanMentions(loaded, arts) ==
    /\ scan.pc = "mentions"
    /\ scan' = Scraped(ScrapeMentions(loaded, arts), arts, "mention",
                       "mentionLoop", "finally")
    /\ ScanFrame

\* for (const tweet of ...) { await processTweet(tweet) }: the call of the
\* next post, then its return
ScanForward ==
    /\ scan.pc \in {"profileLoop", "mentionLoop"}
    /\ scan' = IF scan.busy THEN [scan EXCEPT !.busy = FALSE]
               ELSE IF scan.queue # <<>>
               THEN [scan EXCEPT !.busy = TRUE,
                                 !.queue = Tail(@),
                                 !.forwarded = Append(@, Head(scan.queue))]
               ELSE [scan EXCEPT !.pc = IF scan.pc = "profileLoop"
                                        THEN "mentions" ELSE "finally"]
    /\ ScanFrame

\* finally: retryFailedAI(5), then page.close() when there is a page
ScanClose ==
    /\ scan.pc = "finally"
    /\ scan' = [scan EXCEPT !.pc = "done",
                            !.sweeps = @ + 1,
                            !.page = IF @ = "open" THEN "closed" ELSE @,
                            !.closed = IF scan.page = "open" THEN @ + 1 ELSE @]
    /\ ScanFrame

(***************************************************************************)
(* runWorker as the caller of scrapeFeedFollowing and of processTweet.  A  *)
(* post of the feed has each of its five fields or lacks it (null or the   *)
(* empty string; url 0 is a missing link).  Of processTweet only its call  *)
(* and its return are seen here: it may have stored the post.              *)
(***************************************************************************)
FeedPosts ==
    [username : BOOLEAN, text : BOOLEAN, url : 0..MaxTweets,
     timestamp : BOOLEAN, mediaUrl : BOOLEAN]

Feeds == UNION {[1..n -> FeedPosts] : n \in 0..MaxCands}

FEED_LIMIT == 20

\* tweetsFromFeed.slice(0, 20)
ScrapeFeedFollowing(articles) == Take(articles, FEED_LIMIT)

\* tweetsFromFeed.filter(tweet => tweet.url && !tweetsDB.has(tweet.url))
UniqueNewTweetsNoSnapshot(feed, db) == SelectSeq(feed, LAMBDA t : t.url # 0)
UniqueNewTweets(feed, db) ==
    SelectSeq(feed, LAMBDA t : t.url # 0 /\ t.url \notin db)

\* uniqueNewTweets.filter(t => t.username && (t.text || t.mediaUrl)
\*                              && t.url && t.timestamp)
ValidNewTweets(unique) ==
    SelectSeq(unique, LAMBDA t : /\ t.username
                                 /\ (t.text \/ t.mediaUrl)
                                 /\ t.url # 0
                                 /\ t.timestamp)

CycleIdle ==
    [pc |-> "find", fetched |-> 0, queue |-> <<>>, running |-> {},
     forwarded |-> <<>>]

CycleFrame ==
    UNCHANGED <<now, lastAICallTime, aiLimiter, orphans, aiCalls, tweetsIA,
                notes, notified, pt, sw, cursorVars, sessionVars, job, retry, scan,
                scroll>>

\* new Set((await Post.find({})).map(p => p.tweetId))
CycleFind ==
    /\ cycle.pc = "find"
    /\ tweetsDB' = Ids(posts)
    /\ cycle' = [CycleIdle EXCEPT !.pc = "scrape"]
    /\ UNCHANGED posts
    /\ CycleFrame

\* scrapeFeedFollowing has returned: the two filters; an empty list of
\* unique posts or of valid posts ends the cycle
CycleScrape(articles) ==
    /\ cycle.pc = "scrape"
    /\ cycle' = [cycle EXCEPT
                    !.pc = "loop",
                    !.fetched = Len(articles),
                    !.queue = ValidNewTweets(UniqueNewTweets(
                                  ScrapeFeedFollowing(articles), tweetsDB))]
    /\ UNCHANGED <<posts, tweetsDB>>
    /\ CycleFrame

\* for (const tweet of validNewTweets) { await processTweet(tweet); }
CycleForward ==
    /\ cycle.pc = "loop"
    /\ cycle.running = {}
    /\ cycle' = IF cycle.queue = <<>> THEN [cycle EXCEPT !.pc = "find"]
                 ELSE [cycle EXCEPT !.running = {Head(cycle.queue)},
                                    !.queue = Tail(@),
                                    !.forwarded = Append(@, Head(cycle.queue))]
    /\ UNCHANGED <<posts, tweetsDB>>
    /\ CycleFrame

\* processTweet has returned; it has stored the post unless the identifier
\* was stored meanwhile or a step before post.save() failed
CycleReturn(stored, st) ==
    /\ cycle.running # {}
    /\ LET t == CHOOSE c \in cycle.running : TRUE
       IN  posts' = IF stored /\ ~PostUnique(posts, t.url)
                    THEN Append(posts, [tweetId |-> t.url, status |-> st])
                    ELSE posts
    /\ cycle' = [cycle EXCEPT !.running = {}]
    /\ UNCHANGED tweetsDB
    /\ CycleFrame

(***************************************************************************)
(* The scroll loop of scrapeUserTweets and of scrapeMentions (the same     *)
(* code in both).  A poll is document.querySelectorAll('article').length:  *)
(* the page may report any count, a smaller one than before included.      *)
(***************************************************************************)
CardCounts == 0..MaxCards

ENOUGH_CARDS == 20
maxScrollAttempts == 10
STAGNANT_TRIES == 2

ScrollIdle ==
    [pc |-> "start", previousTweetCount |-> 0, currentTweetCount |-> 0,
     scrollAttempts |-> 0, stagnantTries |-> 0, last |-> "none"]

ScrollFrame ==
    UNCHANGED <<pipeVars, cursorVars, sessionVars, job, retry, scan, cycle>>

\* while (currentTweetCount < 20 && scrollAttempts < maxScrollAttempts)
ScrollOn(s) ==
    s.currentTweetCount < ENOUGH_CARDS /\ s.scrollAttempts < maxScrollAttempts

\* while (stagnantTries < 2 && currentTweetCount === previousTweetCount)
RetryOn(s) ==
    /\ s.stagnantTries < STAGNANT_TRIES
    /\ s.currentTweetCount = s.previousTweetCount

\* if (currentTweetCount === previousTweetCount) break;
StillStagnantOff(s) == FALSE
StillStagnant(s) == s.currentTweetCount = s.previousTweetCount

\* the first poll, before the loop
ScrollStart(count) ==
    /\ scroll.pc = "start"
    /\ scroll' = [scroll EXCEPT !.pc = "outer", !.currentTweetCount = count,
                                !.last = "poll"]
    /\ ScrollFrame

\* one pass of the outer loop up to its test of stagnation: scroll, poll
ScrollOuter(count) ==
    /\ scroll.pc = "outer"
    /\ ScrollOn(scroll)
    /\ LET previous == scroll.currentTweetCount
       IN  scroll' = IF count = previous
                     THEN [scroll EXCEPT !.pc = "inner",
                                         !.previousTweetCount = previous,
                                         !.stagnantTries = 0,
                                         !.last = "scroll"]
                     ELSE [scroll EXCEPT !.previousTweetCount = previous,
                                         !.currentTweetCount = count,
                                         !.scrollAttempts = @ + 1,
                                         !.last = "scroll"]
    /\ ScrollFrame

\* the test of the outer loop fails
ScrollExit ==
    /\ scroll.pc = "outer"
    /\ ~ScrollOn(scroll)
    /\ scroll' = [scroll EXCEPT !.pc = "done", !.last = "test"]
    /\ ScrollFrame

\* one pass of the inner loop: scroll, poll, stagnantTries++
ScrollRetry(count) ==
    /\ scroll.pc = "inner"
    /\ RetryOn(scroll)
    /\ scroll' = [scroll EXCEPT !.currentTweetCount = count,
                                !.stagnantTries = @ + 1,
                                !.last = "scroll"]
    /\ ScrollFrame

\* the test of the inner loop fails: break, or scrollAttempts++
ScrollSettle ==
    /\ scroll.pc = "inner"
    /\ ~RetryOn(scroll)
    /\ scroll' = IF StillStagnant(scroll)
                  THEN [scroll EXCEPT !.pc = "done", !.last = "test"]
                  ELSE [scroll EXCEPT !.pc = "outer",
                                      !.scrollAttempts = @ + 1,
                                      !.last = "test"]
    /\ ScrollFrame

(***************************************************************************)
(* Initial states.                                                         *)
(***************************************************************************)
PipelineAtRest ==
    /\ now = StartTime
    /\ lastAICallTime = 0
    /\ aiLimiter = [activeCount |-> 0, queue |-> <<>>]
    /\ orphans = 0
    /\ aiCalls = NoCalls
    /\ posts = <<>>
    /\ tweetsIA = <<>>
    /\ notes = NoNotes
    /\ notified = NoneNotified
    /\ tweetsDB = {}
    /\ pt = [p \in Scanners |-> PtAt(IF p = "feed" THEN "cycle" ELSE "idle")]
    /\ sw = [s \in Sweeps |-> SwIdle]

OutcomeAtRest ==
    /\ job = JobIdle
    /\ retry = RetryIdle
    /\ scan = ScanIdle
    /\ cycle = CycleIdle
    /\ scroll = ScrollIdle

CursorAtRest ==
    /\ users = <<>>
    /\ scraperState = -1
    /\ tick = TickIdle
    /\ scanLog = <<>>
    /\ late = TickIdle

SessionAtRest ==
    /\ isLoggingIn = FALSE
    /\ currentCredentials = 0
    /\ browserInstance = "null"
    /\ credFile = 0
    /\ logins = 0
    /\ wk = [i \in Workers |-> WkAt("init")]
    /\ timers = {}
    /\ restarts = 0
    /\ errorsSent = 0
    /\ feeds = 0
    /\ crons = 0
    /\ feedCrashes = 0

(***************************************************************************)
(* The pipeline specification.                                             *)
(***************************************************************************)
InitPipeline ==
    PipelineAtRest /\ CursorAtRest /\ SessionAtRest /\ OutcomeAtRest

NextPipeline ==
    \/ Tick
    \/ FeedSnapshot
    \/ \E cands \in CandLists : FeedScrape(cands)
    \/ \E cands \in CandLists : DeepScan(cands)
    \/ \E s \in Sweeps : DeepFinally(s)
    \/ \E p \in Scanners : FindOne(p)
    \/ \E p \in Scanners : Save(p)
    \/ \E p \in Scanners : Gate(p)
    \/ \E p \in Scanners, c \in ClassifierOutputs : ClassifyDone(p, c)
    \/ \E p \in Scanners : ClassifyTimeout(p)
    \/ OrphanDone
    \/ \E p \in Scanners : SetUnprocessed(p)
    \/ \E p \in Scanners : SetDiscarded(p)
    \/ \E p \in Scanners : SaveIA(p)
    \/ \E p \in Scanners : SetProcessed(p)
    \/ \E s \in Sweeps : SweepFind(s)
    \/ \E s \in Sweeps, c \in ClassifierOutputs : SweepClassifyDone(s, c)
    \/ \E s \in Sweeps : SweepClassifyTimeout(s)
    \/ \E s \in Sweeps : SweepSetDiscarded(s)
    \/ \E s \in Sweeps : SweepSaveIA(s)
    \/ \E s \in Sweeps : SweepSetProcessed(s)

SpecPipeline == InitPipeline /\ [][NextPipeline]_vars

(***************************************************************************)
(* The cursor specification: any account list, any cursor left by an       *)
(* earlier run of the process.                                             *)
(***************************************************************************)
InitCursor ==
    /\ PipelineAtRest
    /\ SessionAtRest
    /\ OutcomeAtRest
    /\ users \in UserCollections
    /\ scraperState \in -1..MaxUsers
    /\ tick = TickIdle
    /\ scanLog = <<>>
    /\ late = TickIdle

NextCursor ==
    \/ \E dbOk \in BOOLEAN : CronFire(dbOk)
    \/ TickState
    \/ \E opened \in BOOLEAN, closeOk \in BOOLEAN : TickScan(opened, closeOk)

SpecCursor == InitCursor /\ [][NextCursor]_vars

(***************************************************************************)
(* The roster specification: the cursor specification with accounts        *)
(* inserted and deleted through the users API between and during ticks.    *)
(***************************************************************************)
NextRoster ==
    \/ NextCursor
    \/ \E username \in 1..MaxUsers : UserInsert(username, TRUE)
    \/ \E k \in 1..MaxUsers : UserDelete(k)

SpecRoster == InitCursor /\ [][NextRoster]_vars

(***************************************************************************)
(* The overlap specification: the cursor specification with a deep-scan    *)
(* that outlasts the period of the cron expression.                        *)
(***************************************************************************)
NextOverlap ==
    \/ NextCursor
    \/ \E dbOk \in BOOLEAN : CronOverlap(dbOk)
    \/ \E opened \in BOOLEAN, closeOk \in BOOLEAN : LateScan(opened, closeOk)

SpecOverlap == InitCursor /\ [][NextOverlap]_vars

(***************************************************************************)
(* The session specification: credentials.json absent or seeded.           *)
(***************************************************************************)
InitSession ==
    /\ PipelineAtRest
    /\ CursorAtRest
    /\ OutcomeAtRest
    /\ isLoggingIn = FALSE
    /\ currentCredentials = 0
    /\ browserInstance = "null"
    /\ credFile \in {0, 1}
    /\ logins = 0
    /\ wk = [i \in Workers |-> WkAt("init")]
    /\ timers = {}
    /\ restarts = 0
    /\ errorsSent = 0
    /\ feeds = 0
    /\ crons = 0
    /\ feedCrashes = 0

NextSession ==
    \/ \E i \in Workers : WorkerStart(i)
    \/ \E t \in timers : TimerFire(t)
    \/ \E i \in Workers : SetupEnter(i)
    \/ \E i \in Workers : SetupRead(i)
    \/ \E i \in Workers, ok \in BOOLEAN : SetupLaunch(i, ok)
    \/ \E i \in Workers, ok \in BOOLEAN, subscribe \in BOOLEAN,
          loggedOut \in BOOLEAN : SetupValidate(i, ok, subscribe, loggedOut)
    \/ \E i \in Workers, ok \in BOOLEAN : SetupInspect(i, ok)
    \/ \E i \in Workers, ok \in BOOLEAN : SetupRelaunch(i, ok)
    \/ \E i \in Workers, ok \in BOOLEAN, got \in Tokens, written \in BOOLEAN :
           SetupLogin(i, ok, got, written)
    \/ \E i \in Workers : WorkerHandle(i)

SpecSession == InitSession /\ [][NextSession]_vars

(***************************************************************************)
(* The supervisor specification: the session together with the feed loop   *)
(* that startWorker has started.                                           *)
(***************************************************************************)
NextSupervisor ==
    \/ NextSession
    \/ \E terminates \in BOOLEAN : FeedLoopThrows(terminates)

SpecSupervisor == InitSession /\ [][NextSupervisor]_vars


(***************************************************************************)
(* Properties of the pipeline.                                             *)
(***************************************************************************)

\* the high-priority categories, as the routing contract lists them
HighPriority ==
    {"Airdrop", "Launch Alerts", "Presale", "Contract Alert", "Listing",
     "Price Alert", "Scam Warning", "Giveaway", "Signals", "PnL Sharing"}

ExpectedChannel(category) ==
    IF category \in HighPriority THEN "alerts" ELSE "general"

\* the log after exactly one more message, on the given channel
OneMore(channel) ==
    notes' = [k \in DOMAIN notes |->
                 IF k = channel THEN notes[k] + 1 ELSE notes[k]]

\* the classification results that are routed
RoutedOutputs == ClassifierOutputs \ {"not-relevant"}

\* a processTweet invocation of scanner p returns in this step
Returns(p) ==
    /\ pt[p].pc \notin {"cycle", "scrape", "idle", "finally"}
    /\ pt'[p] = Resume(p, pt[p].queue)

\* C1: exactly one RawPost and at most one ClassifiedPost per post
\* identifier, whatever the interleaving of the processTweet invocations of
\* the two scanners: no identifier is ever stored twice in either collection,
\* the RawPost is there when an invocation returns, and an invocation that
\* finds the RawPost at its existence check returns without a classifier
\* call, a notification or a write.
C1_Idempotent ==
    /\ [](\A id \in TweetIds :
              /\ Cardinality(Matching(posts, id)) <= 1
              /\ Cardinality(Matching(tweetsIA, id)) <= 1)
    /\ [][\A p \in Scanners :
              /\ Returns(p) => Cardinality(Matching(posts', pt[p].id)) = 1
              /\ (/\ pt[p].pc = "findOne"
                  /\ PostFindOne(posts, pt[p].id)
                  /\ pt'[p] # pt[p])
                 => /\ Returns(p)
                    /\ UNCHANGED <<posts, tweetsIA, notes, aiCalls,
                                   lastAICallTime, aiLimiter, orphans>>]_vars

\* C1 witness: both scanners hold the same identifier; one has inserted the
\* RawPost while the other, past its existence check, is about to insert it
C1_Witness ==
    \E p \in Scanners :
        /\ pt[p].pc = "save"
        /\ Cardinality(Matching(posts, pt[p].id)) = 1

\* C2: a RawPost that is processed or discarded is never unprocessed again
C2_StatusMonotone ==
    [][\A i \in DOMAIN posts :
           posts[i].status \in {"processed", "discarded"}
           => posts'[i].status # "unprocessed"]_vars

\* C3: two consecutive classifier calls are at least AI_CALL_INTERVAL apart
C3_Spacing == aiCalls.gap = -1 \/ aiCalls.gap >= AI_CALL_INTERVAL

\* C4: at most one classifier call is in flight, the calls of the sweep and
\* the calls abandoned by withTimeout included
C4_OneInFlight == InFlight <= 1

\* C7: a classification result other than 'error' and 'not-relevant' makes
\* processTweet, and likewise retryFailedAI, send exactly one message: on
\* 'alerts' for a high-priority category, on 'general' for any other string;
\* nothing else sends.
C7_Routing ==
    [][/\ \A p \in Scanners :
              (pt[p].pc = "classify" /\ pt'[p].pc = "saveIA")
              => \A c \in RoutedOutputs :
                     OneMore(ExpectedChannel(c)) \/ ~ClassifyDone(p, c)
       /\ \A s \in Sweeps :
              (sw[s].pc = "classify" /\ sw'[s].pc = "saveIA")
              => \A c \in RoutedOutputs :
                     OneMore(ExpectedChannel(c)) \/ ~SweepClassifyDone(s, c)
       /\ notes' # notes =>
              \/ \E p \in Scanners, c \in RoutedOutputs : ClassifyDone(p, c)
              \/ \E s \in Sweeps, c \in RoutedOutputs : SweepClassifyDone(s, c)]_vars

\* C7 witness: a result was routed to each of the two channels
C7_Witness == notes["alerts"] = 1 /\ notes["general"] = 1

(***************************************************************************)
(* Properties of the rotation.                                             *)
(***************************************************************************)

\* C5: with an unchanged account list of size N >= 1 and a cursor inside
\* the list, N consecutive ticks deep-scan the accounts once each in list
\* order, the tick after them deep-scans the first of them again, and the
\* stored cursor is inside the list after every tick.
C5_RoundRobin ==
    /\ \A i \in DOMAIN scanLog :
           LET N == Len(scanLog[i].list)
           IN (/\ N >= 1
               /\ scanLog[i].idx # -1
               /\ i + N <= Len(scanLog)
               /\ \A k \in 1..N : scanLog[i + k].list = scanLog[i].list)
              => \A k \in 0..N :
                     scanLog[i + k].idx = (scanLog[i].idx + k) % N
    /\ (/\ tick.pc = "idle"
        /\ scanLog # <<>>
        /\ Len(scanLog[Len(scanLog)].list) >= 1)
       => scraperState \in 0..(Len(scanLog[Len(scanLog)].list) - 1)

\* C6: a tick that has selected an account stores the cursor advanced by one
\* step, (index + 1) mod N, when its deep-scan is over, whatever the
\* deep-scan met.
C6_AlwaysAdvances ==
    [][(tick.pc = "scan" /\ tick'.pc = "idle")
       => scraperState' = (tick.nextIndex + 1) % Len(tick.allUsers)]_vars

(***************************************************************************)
(* Properties of the session set-up.                                       *)
(***************************************************************************)

C9_LockedBackoff ==
    [][\A i \in Workers :
           (wk[i].pc = "returned" /\ wk[i].ret = "premium" /\ wk'[i] # wk[i])
           => /\ errorsSent' = errorsSent + 1
              /\ feeds' = feeds
              /\ crons' = crons
              /\ [by |-> i, delay |-> 10000] \notin timers
              /\ timers' = timers \cup {[by |-> i, delay |-> 10000]}
              /\ logins' = logins
              /\ wk'[i].pc = "done"]_vars

\* C9 witness: a run ended on 'premium' with its restart timer pending and
\* no scanner started
C9_Witness ==
    \E i \in Workers :
        /\ wk[i].pc = "done"
        /\ wk[i].ret = "premium"
        /\ [by |-> i, delay |-> 10000] \in timers
        /\ feeds = 0
        /\ crons = 0
        /\ errorsSent >= 1

\* C10: at most one validation/login sequence is in progress; a call made
\* meanwhile returns null in one step and leaves the browser, the
\* credentials and the in-progress flag as they are.
C10_NoReentry ==
    /\ [](Cardinality({i \in Workers : wk[i].pc \in SetupPcs}) <= 1)
    /\ [][\A i \in Workers :
              (/\ wk[i].pc = "setup"
               /\ \E j \in Workers : wk[j].pc \in SetupPcs
               /\ wk'[i] # wk[i])
              => /\ wk'[i].pc = "returned"
                 /\ wk'[i].ret = "null"
                 /\ UNCHANGED <<isLoggingIn, browserInstance,
                                currentCredentials, credFile, logins>>]_vars

\* C10 witness: a caller was turned away with null while the sequence of
\* another caller is still running
C10_Witness ==
    \E i \in Workers, j \in Workers :
        /\ wk[i].pc = "returned"
        /\ wk[i].ret = "null"
        /\ wk[j].pc \in SetupPcs
        /\ isLoggingIn

(***************************************************************************)
(* The outcome specification: one scan and its sweep over an empty store.  *)
(***************************************************************************)
InitOutcome ==
    PipelineAtRest /\ CursorAtRest /\ SessionAtRest /\ OutcomeAtRest

NextOutcome ==
    \/ \E cands \in CandSeqs : ScanStart(cands)
    \/ JobNext
    \/ \E ok \in BOOLEAN : JobFindOne(ok)
    \/ \E ok \in BOOLEAN : JobSave(ok)
    \/ \E answer \in Answers : JobClassify(answer)
    \/ JobTimeout
    \/ \E res \in LookupResults : JobLookup(res)
    \/ \E delivered \in BOOLEAN : JobNotify(delivered)
    \/ \E ok \in BOOLEAN : JobSetDiscarded(ok)
    \/ \E ok \in BOOLEAN : JobSaveIA(ok)
    \/ \E ok \in BOOLEAN : JobSetProcessed(ok)
    \/ \E ok \in BOOLEAN : JobSetUnprocessed(ok)
    \/ ScanFinally
    \/ RetryFind
    \/ RetryNext
    \/ \E answer \in Answers : RetryClassify(answer)
    \/ RetryTimeout
    \/ \E res \in LookupResults : RetryLookup(res)
    \/ RetryNotify
    \/ \E ok \in BOOLEAN : RetrySetDiscarded(ok)
    \/ \E ok \in BOOLEAN : RetrySaveIA(ok)
    \/ \E ok \in BOOLEAN : RetrySetProcessed(ok)

SpecOutcome == InitOutcome /\ [][NextOutcome]_vars

(***************************************************************************)
(* The classifier specification: the scan with the classifier call of       *)
(* processTweet followed through retryWithBackoff and classifyTweet.  The   *)
(* store operations succeed.                                                *)
(***************************************************************************)
NextClassifier ==
    \/ \E cands \in CandSeqs : ScanStart(cands)
    \/ JobNext
    \/ JobFindOne(TRUE)
    \/ JobSave(TRUE)
    \/ \E resps \in ResponseSeqs : JobCall(resps)
    \/ JobTimeout
    \/ \E delivered \in BOOLEAN : JobNotify(delivered)
    \/ JobSetDiscarded(TRUE)
    \/ JobSaveIA(TRUE)
    \/ JobSetProcessed(TRUE)
    \/ JobSetUnprocessed(TRUE)

SpecClassifier == InitOutcome /\ [][NextClassifier]_vars

(***************************************************************************)
(* The backlog specification: the same scan and sweep over a store that    *)
(* holds up to MaxBacklog posts left unprocessed by earlier runs.  The     *)
(* store operations succeed and the classifier answers without contracts   *)
(* or not in time.                                                         *)
(***************************************************************************)
BacklogAnswers == [category : {"News"}, contracts : {0}]

InitBacklog ==
    /\ now = StartTime
    /\ lastAICallTime = 0
    /\ aiLimiter = [activeCount |-> 0, queue |-> <<>>]
    /\ orphans = 0
    /\ aiCalls = NoCalls
    /\ posts \in {Backlog(n) : n \in 0..MaxBacklog}
    /\ tweetsIA = <<>>
    /\ notes = NoNotes
    /\ notified = NoneNotified
    /\ tweetsDB = {}
    /\ pt = [p \in Scanners |-> PtAt(IF p = "feed" THEN "cycle" ELSE "idle")]
    /\ sw = [s \in Sweeps |-> SwIdle]
    /\ CursorAtRest
    /\ SessionAtRest
    /\ OutcomeAtRest

NextBacklog ==
    \/ \E cands \in CandSeqs : ScanStart(cands)
    \/ JobNext
    \/ JobFindOne(TRUE)
    \/ JobSave(TRUE)
    \/ \E answer \in BacklogAnswers : JobClassify(answer)
    \/ JobTimeout
    \/ \E delivered \in BOOLEAN : JobNotify(delivered)
    \/ JobSaveIA(TRUE)
    \/ JobSetProcessed(TRUE)
    \/ JobSetUnprocessed(TRUE)
    \/ ScanFinally
    \/ RetryFind
    \/ RetryNext
    \/ \E answer \in BacklogAnswers : RetryClassify(answer)
    \/ RetryTimeout
    \/ RetryNotify
    \/ RetrySaveIA(TRUE)
    \/ RetrySetProcessed(TRUE)

SpecBacklog == InitBacklog /\ [][NextBacklog]_vars

(***************************************************************************)
(* The drain specification: deep-scan after deep-scan finds nothing new    *)
(* and starts its sweep over a store of unprocessed posts, with or without *)
(* text.  Every step that can be taken is taken in the end, and a post     *)
(* that is classified again and again gets an answer in the end.           *)
(***************************************************************************)
DrainAnswers == [category : {"News", "not-relevant"}, contracts : {0}]

InitDrain ==
    /\ now = StartTime
    /\ lastAICallTime = 0
    /\ aiLimiter = [activeCount |-> 0, queue |-> <<>>]
    /\ orphans = 0
    /\ aiCalls = NoCalls
    /\ tweetsIA = <<>>
    /\ notes = NoNotes
    /\ notified = NoneNotified
    /\ tweetsDB = {}
    /\ pt = [p \in Scanners |-> PtAt(IF p = "feed" THEN "cycle" ELSE "idle")]
    /\ sw = [s \in Sweeps |-> SwIdle]
    /\ CursorAtRest
    /\ SessionAtRest
    /\ job = [JobIdle EXCEPT !.pc = "next"]
    /\ retry = RetryIdle
    /\ scan = ScanIdle
    /\ cycle = CycleIdle
    /\ scroll = ScrollIdle
    /\ \E n \in 0..MaxBacklog : \E texts \in [1..n -> BOOLEAN] :
           posts = [i \in 1..n |-> [Backlog(n)[i] EXCEPT !.text = texts[i]]]

NextDrain ==
    \/ JobNext
    \/ ScanFinally
    \/ RetryFind
    \/ RetryNext
    \/ \E answer \in DrainAnswers : RetryClassify(answer)
    \/ RetryTimeout
    \/ RetryNotify
    \/ RetrySetDiscarded(TRUE)
    \/ RetrySaveIA(TRUE)
    \/ RetrySetProcessed(TRUE)
    \/ NextDeepScan

SpecDrain ==
    /\ InitDrain
    /\ [][NextDrain]_vars
    /\ WF_vars(NextDrain)
    /\ SF_vars(\E answer \in DrainAnswers : RetryClassify(answer))

(***************************************************************************)
(* The deep-scan specification: one processUserAndMentions call over any   *)
(* two pages.                                                              *)
(***************************************************************************)
NextDeep ==
    \/ \E ok \in BOOLEAN : ScanOpen(ok)
    \/ \E loaded \in BOOLEAN, arts \in Pages : ScanProfile(loaded, arts)
    \/ \E loaded \in BOOLEAN, arts \in Pages : ScanMentions(loaded, arts)
    \/ ScanForward
    \/ ScanClose

SpecDeep == InitOutcome /\ [][NextDeep]_vars

NextFeed ==
    \/ CycleFind
    \/ \E articles \in Feeds : CycleScrape(articles)
    \/ CycleForward
    \/ \E stored \in BOOLEAN, st \in {"unprocessed", "processed", "discarded"} :
           CycleReturn(stored, st)

SpecFeed == InitOutcome /\ [][NextFeed]_vars

NextScroll ==
    \/ \E count \in CardCounts : ScrollStart(count)
    \/ \E count \in CardCounts : ScrollOuter(count)
    \/ ScrollExit
    \/ \E count \in CardCounts : ScrollRetry(count)
    \/ ScrollSettle

\* every await of the loop is a timer or a page.evaluate that settles
SpecScroll == InitOutcome /\ [][NextScroll]_vars /\ WF_vars(NextScroll)

(***************************************************************************)
(* Properties of the supervisor, the pipeline outcomes, the rotation tick  *)
(* and the recovery sweep.                                                 *)
(***************************************************************************)

\* C11: when the feed loop of runWorker throws, startWorker closes the
\* browser, sends one error-channel notification and sets one restart timer
\* of RESTART_DELAY.
C11_FeedCrashRestarts ==
    [][feedCrashes' > feedCrashes
       => /\ errorsSent' = errorsSent + 1
          /\ browserInstance' # "open"
          /\ \E t \in timers' \ timers : t.delay = RESTART_DELAY]_vars

\* the ClassifiedPost documents stored for a post
Classified(id) == {i \in DOMAIN tweetsIA : tweetsIA[i].tweetId = id}

Range(seq) == {seq[i] : i \in DOMAIN seq}

\* the unprocessed posts that come before a post in the Post collection
UnprocessedBefore(coll, id) ==
    {i \in DOMAIN coll : i < FirstMatch(coll, id) /\ coll[i].status = "unprocessed"}

\* C12: a processTweet invocation for a new post, with no store failure,
\* whose answer is a high-priority category with k contracts that all get a
\* pair, returns with the RawPost processed, one ClassifiedPost with k
\* enriched records, one 'alerts' message and no 'general' message.
C12_HighPriorityOutcome ==
    (/\ job.pc = "returned"
     /\ job.fresh
     /\ ~job.fault
     /\ job.cat \in HighPriority
     /\ job.pairs = job.contracts)
    => /\ StatusOf(job.id) = "processed"
       /\ Cardinality(Classified(job.id)) = 1
       /\ \A i \in Classified(job.id) : tweetsIA[i].enriched = job.contracts
       /\ job.notes["alerts"] = 1
       /\ job.notes["general"] = 0

\* C13: a post classified 'not-relevant', by processTweet or by
\* retryFailedAI, ends discarded, without ClassifiedPost and without a
\* message on any channel, the error channel included.
C13_NotRelevantOutcome ==
    /\ (/\ job.pc = "returned"
        /\ job.fresh
        /\ ~job.fault
        /\ job.cat = "not-relevant")
       => /\ StatusOf(job.id) = "discarded"
          /\ Classified(job.id) = {}
          /\ job.notes = NoNotes
          /\ job.errs = 0
    /\ (/\ retry.pc \in {"handled", "done"}
        /\ ~retry.fault
        /\ retry.cat = "not-relevant")
       => /\ StatusOf(retry.id) = "discarded"
          /\ Classified(retry.id) = {}
          /\ retry.notes = NoNotes
          /\ retry.errs = 0

\* a processTweet invocation whose classifier call timed out returns with
\* the RawPost unprocessed and no message sent
TimeoutLeavesUnprocessed ==
    (job.pc = "returned" /\ job.cat = "error" /\ ~job.fault)
    => /\ StatusOf(job.id) = "unprocessed"
       /\ job.notes = NoNotes
       /\ job.errs = 0

\* C14 as stated: after a classifier timeout the RawPost is unprocessed, no
\* message was sent, and the post is in the batch that the next sweep
\* fetches.
C14_TimeoutRetried ==
    /\ []TimeoutLeavesUnprocessed
    /\ [][(retry.pc = "find" /\ retry'.pc # "find")
          => \A id \in job.timedOut : id \in Range(retry'.batch)]_vars

\* C14 amended: after a classifier timeout the RawPost is unprocessed, no
\* message was sent, and the post is in the batch that the next sweep
\* fetches provided fewer than SWEEP_LIMIT unprocessed posts come before it
\* in the store.
C14_TimeoutRetriedWithinLimit ==
    /\ []TimeoutLeavesUnprocessed
    /\ [][(retry.pc = "find" /\ retry'.pc # "find")
          => \A id \in job.timedOut :
                 Cardinality(UnprocessedBefore(posts, id)) < SWEEP_LIMIT
                 => id \in Range(retry'.batch)]_vars

\* C14 witness: the sweep has fetched a batch that holds a post whose
\* classifier call timed out in the scan
C14_Witness ==
    /\ retry.pc \notin {"idle", "find"}
    /\ \E id \in job.timedOut : id \in Range(retry.batch)

\* C15: processTweet never throws, whatever step fails, and the loop of the
\* scan calls it for the next candidate.
C15_NeverThrows ==
    /\ [](job.pc # "threw")
    /\ [][(job.pc = "returned" /\ job.queue # <<>> /\ job' # job)
          => /\ job'.pc = "findOne"
             /\ job'.id = Head(job.queue).id
             /\ job'.queue = Tail(job.queue)]_vars

\* C15 witness: a step of an invocation failed and was caught, and
\* processTweet is running for the next candidate
C15_Witness == job.pc = "findOne" /\ job.caught

\* the accounts of the User collection whose active flag is set
ActiveUsers == {k \in DOMAIN users : users[k].active}

\* C16: a tick never selects an account whose active flag is false, and
\* the list whose length is the modulus of the cursor holds the active
\* accounts only.
C16_ActiveOnly ==
    \A i \in DOMAIN scanLog :
        scanLog[i].idx # -1
        => /\ users[scanLog[i].list[scanLog[i].idx + 1]].active
           /\ Len(scanLog[i].list) = Cardinality(ActiveUsers)

\* C17: a tick that reads an empty account list starts no deep-scan and
\* leaves the cursor record as it was: absent when absent, unchanged else.
C17_EmptyListNoOp ==
    [][(/\ scanLog' # scanLog
        /\ scanLog'[Len(scanLog')].list = <<>>)
       => /\ scraperState' = scraperState
          /\ tick'.pc # "scan"]_vars

\* C17 witness: a tick has run over an empty User collection and there is
\* still no cursor record
C17_Witness ==
    /\ users = <<>>
    /\ scanLog # <<>>
    /\ scanLog[Len(scanLog)].list = <<>>
    /\ tick.pc = "idle"
    /\ scraperState = -1

\* C18: two callbacks of the rotation cron job are never active at once,
\* so that two of them never deep-scan the account of one cursor value.
C18_TicksSerialized ==
    /\ ~(late.pc = "scan" /\ tick.pc \in {"state", "scan"})
    /\ ~(/\ late.pc = "scan"
         /\ tick.pc = "scan"
         /\ late.nextIndex = tick.nextIndex)

\* every call of the classifier for the post was answered by a failure:
\* overload each time, or another error at the first call
ClassifierFailed ==
    /\ job.resps # <<>>
    /\ \/ \A i \in DOMAIN job.resps : job.resps[i] = "503"
       \/ job.resps[1] = "other"

\* C21: when the classifier call fails, processTweet returns without
\* throwing, with the sentinel 'error' as its analysis, the RawPost
\* unprocessed and no message sent.
C21_FailureIsSentinel ==
    /\ job.pc # "threw"
    /\ (job.pc = "returned" /\ job.fresh /\ ClassifierFailed)
       => /\ job.cat = "error"
          /\ StatusOf(job.id) = "unprocessed"
          /\ job.notes = NoNotes

\* the delays of the spec's backoff before attempts 2 and 3
BackoffDelays == <<2000, 4000>>

\* C22: the primary path makes at most 3 classification attempts for a
\* post, waits 2 s before the second and 4 s before the third, makes a
\* second attempt when the first is answered by overload, and makes one
\* attempt only when it is answered by another error.
C22_OverloadRetried ==
    job.resps # <<>>
    => /\ job.attempts <= 3
       /\ job.waits = SubSeq(BackoffDelays, 1, job.attempts - 1)
       /\ job.resps[1] = "503" => job.attempts > 1
       /\ job.resps[1] = "other" => job.attempts = 1

\* C23: with deep-scans that keep coming and a classifier that answers in
\* the end, the store is drained: from some point on no RawPost is
\* unprocessed.
C23_BacklogDrains ==
    <>[](\A i \in DOMAIN posts : posts[i].status # "unprocessed")

\* C24: the sweep started by a deep-scan ends before that deep-scan
\* returns: a sweep is running only while the deep-scan is in its finally
\* block, and never two at once.
C24_SweepAwaited ==
    /\ \A s \in Sweeps : sw[s].pc # "idle" => pt["deep"].pc = "finally"
    /\ Cardinality({s \in Sweeps : sw[s].pc # "idle"}) <= 1

\* positions of a list, counted from 0 as the cursor counts them
Positions(list) == 0..(Len(list) - 1)

\* C25: a tick whose cursor index is a position of the list it read
\* deep-scans the account at that index, a tick whose index is not stores
\* index 0 and scans nothing; every index that selected an account was
\* inside the list read by its tick.
C25_IndexInsideList ==
    /\ [](\A i \in DOMAIN scanLog :
              scanLog[i].idx # -1 => scanLog[i].idx \in Positions(scanLog[i].list))
    /\ [][(tick.pc = "state" /\ tick'.pc # "state")
          => IF Upsert(scraperState) \in Positions(tick.allUsers)
             THEN /\ tick'.pc = "scan"
                  /\ tick'.allUsers = tick.allUsers
                  /\ tick'.nextIndex = Upsert(scraperState)
             ELSE /\ tick'.pc = "idle"
                  /\ scraperState' = 0]_vars

\* C25 witness: accounts were deleted, and a tick that read a list shorter
\* than its cursor index has stored index 0 without a deep-scan
C25_Witness ==
    /\ scanLog # <<>>
    /\ scanLog[Len(scanLog)].idx = -1
    /\ scanLog[Len(scanLog)].list # <<>>
    /\ Len(users) < Len(scanLog[Len(scanLog)].list)
    /\ scraperState = 0
    /\ tick.pc = "idle"

\* a worker leaves the validation for the full login
GoesToLogin(i) ==
    wk[i].pc \in {"validate", "inspect"} /\ wk'[i].pc = "relaunch"

\* the validation page has been inspected and shows neither the subscribe
\* button nor the login link
ReportsValid(i) ==
    wk[i].pc = "inspect" /\ ~wk[i].page.subscribe /\ ~wk[i].page.loggedOut

\* C26: the full login is started only when there are no stored
\* credentials or the validation page shows the login link; a validation
\* that finds neither affordance returns the open browser, with no login
\* and the credential store unchanged.
C26_LoginOnlyWhenInvalid ==
    [][\A i \in Workers :
         /\ GoesToLogin(i)
            => \/ currentCredentials = 0
               \/ wk[i].pc = "inspect" /\ wk[i].page.loggedOut
         /\ (ReportsValid(i) /\ wk'[i] # wk[i])
            => /\ wk'[i].ret = "browser"
               /\ browserInstance' = "open"
               /\ UNCHANGED <<credFile, logins>>]_vars

\* a step of the validation ends in an exception: the page could not be
\* opened or loaded, or a call after the inspection rejected
ValidationThrows(i) ==
    /\ GoesToLogin(i)
    /\ currentCredentials # 0
    /\ ~(wk[i].pc = "inspect" /\ wk[i].page.loggedOut)

\* C27: when the validation, the launch or the login throws, the browser is
\* closed and forgotten, the credentials in memory are cleared, the flag
\* is cleared and setupPersistentBrowser throws.
C27_FailureResets ==
    [][\A i \in Workers :
         (\/ ValidationThrows(i)
          \/ wk[i].pc \in SetupPcs /\ wk'[i].ret = "throw")
         => /\ wk'[i].pc = "returned"
            /\ wk'[i].ret = "throw"
            /\ browserInstance' = "null"
            /\ currentCredentials' = 0
            /\ isLoggingIn' = FALSE]_vars

\* C28: handleLogin changes the credential file only to the complete
\* triple captured by this login; a login that throws leaves the file as
\* it was; a login that returns has its triple in the file.
C28_TripleStored ==
    [][\A i \in Workers :
         (wk[i].pc = "login" /\ wk'[i].pc # "login")
         => /\ credFile' # credFile
               => Complete(wk'[i].got) /\ credFile' = logins + 2
            /\ wk'[i].ret = "throw" => credFile' = credFile
            /\ wk'[i].ret = "browser"
               => credFile' = logins + 2 /\ credFile' = currentCredentials']_vars

\* the posts of one tag that a deep-scan has passed to processTweet
Forwarded(tag) ==
    SelectSeq(scan.forwarded, LAMBDA t : t.scrapedFor = tag)

\* C29: a scrape that returns the error variant forwards no post, and the
\* deep-scan still runs the mention scrape on the same page, starts the
\* sweep and closes the page.
C29_ScanErrorNotFatal ==
    /\ scan.profile = "error" => Forwarded("profile") = <<>>
    /\ scan.mention = "error" => Forwarded("mention") = <<>>
    /\ (/\ scan.pc = "done"
        /\ scan.opened = 1
        /\ scan.profile = "error" \/ scan.mention = "error")
       => /\ scan.mention # "none"
          /\ scan.sweeps = 1
          /\ scan.page = "closed"
          /\ scan.closed = 1

\* C29 witness: the profile scrape returned the error variant and the
\* mention scrape of the same deep-scan has forwarded a post
C29_Witness ==
    /\ scan.pc = "done"
    /\ scan.profile = "error"
    /\ Forwarded("mention") # <<>>

\* C30: a deep-scan forwards at most SAMPLE_LIMIT posts tagged profile,
\* each from a card below the pinned ones, then at most SAMPLE_LIMIT posts
\* tagged mention; the mention scrape starts when processTweet has returned
\* for every profile post; one page is opened and it is closed once.
C30_DeepScanShape ==
    /\ Len(Forwarded("profile")) <= SAMPLE_LIMIT
    /\ Len(Forwarded("mention")) <= SAMPLE_LIMIT
    /\ scan.forwarded = Forwarded("profile") \o Forwarded("mention")
    /\ \A k \in DOMAIN scan.forwarded :
           scan.forwarded[k].scrapedFor = "profile"
           => scan.forwarded[k].kind # "pinned"
    /\ scan.pc = "mentions" => ~scan.busy /\ scan.queue = <<>>
    /\ scan.opened <= 1
    /\ scan.closed <= scan.opened
    /\ scan.pc = "done" => scan.closed = scan.opened

\* C30 witness: a deep-scan over a profile page with a pinned card on top
\* has forwarded SAMPLE_LIMIT profile posts and SAMPLE_LIMIT mentions and
\* has closed its page
C30_Witness ==
    /\ scan.pc = "done"
    /\ scan.closed = 1
    /\ Len(Forwarded("profile")) = SAMPLE_LIMIT
    /\ Len(Forwarded("mention")) = SAMPLE_LIMIT
    /\ Forwarded("profile")[1].card = 2

\* C31: in a feed cycle every candidate handed to processTweet has an
\* identifier that is absent from the snapshot read at the start of the
\* cycle, and has an author, an identifier, a timestamp and a text or a
\* media link; at most one processTweet call is in flight, and the next
\* snapshot is read only when the last call has returned and no candidate
\* is left.
ForwardedAreNewAndValid ==
    \A i \in DOMAIN cycle.forwarded :
        LET t == cycle.forwarded[i]
        IN  /\ t.url # 0
            /\ t.url \notin tweetsDB
            /\ t.username
            /\ t.timestamp
            /\ (t.text \/ t.mediaUrl)

C31_FeedCycleFilters ==
    /\ [](ForwardedAreNewAndValid /\ Cardinality(cycle.running) <= 1)
    /\ [][cycle.pc = "find" /\ cycle'.pc = "scrape"
          => cycle.running = {} /\ cycle.queue = <<>>]_vars

\* a cycle that fetched two posts, dropped the stored one and has finished
\* forwarding the other, which has media and no text
C31_Witness ==
    /\ cycle.pc = "find"
    /\ cycle.fetched = 2
    /\ tweetsDB # {}
    /\ Len(cycle.forwarded) = 1
    /\ ~cycle.forwarded[1].text
    /\ cycle.running = {}

\* C32: a processTweet invocation for a new post, with no store failure,
\* whose answer is a category other than not-relevant and in which a lookup
\* returned no pair or the notification was not delivered, has looked up
\* every contract and sent one message, and returns with the RawPost
\* processed and one ClassifiedPost holding the pairs that were found.
C32_BestEffortSteps ==
    (/\ job.pc = "returned"
     /\ job.fresh
     /\ ~job.fault
     /\ job.cat \in OutcomeCategories \ {"not-relevant"}
     /\ (job.pairs < job.contracts \/ job.lost))
    => /\ job.left = 0
       /\ job.notes["alerts"] + job.notes["general"] = 1
       /\ StatusOf(job.id) = "processed"
       /\ Cardinality(Classified(job.id)) = 1
       /\ \A i \in Classified(job.id) : tweetsIA[i].enriched = job.pairs

\* C33: whatever counts the polls report, the scroll loop ends; it scrolls
\* only while fewer than 20 cards were counted, fewer than 10 outer
\* attempts were made, and the two stagnant tries that follow a scroll
\* without a new card have not both left the count where it was; it ends
\* with 20 cards or more, or after those two tries, or after 10 attempts.
ScrollMayGoOn ==
    /\ scroll.currentTweetCount < ENOUGH_CARDS
    /\ scroll.scrollAttempts < maxScrollAttempts
    /\ ~(/\ scroll.stagnantTries = STAGNANT_TRIES
         /\ scroll.currentTweetCount = scroll.previousTweetCount)

C33_ScrollLoopEnds ==
    /\ <>(scroll.pc = "done")
    /\ [][scroll'.last = "scroll" => ScrollMayGoOn]_vars
    /\ [](scroll.pc = "done"
          => \/ scroll.currentTweetCount >= ENOUGH_CARDS
             \/ scroll.scrollAttempts = maxScrollAttempts
             \/ /\ scroll.stagnantTries = STAGNANT_TRIES
                /\ scroll.currentTweetCount = scroll.previousTweetCount)
    /\ [](scroll.scrollAttempts <= maxScrollAttempts)

\* a loop that ended after 10 outer attempts with fewer than 20 cards,
\* having been through stagnant tries that found a new card
C33_Witness ==
    /\ scroll.pc = "done"
    /\ scroll.scrollAttempts = maxScrollAttempts
    /\ scroll.currentTweetCount < ENOUGH_CARDS
    /\ scroll.stagnantTries > 0
    /\ scroll.currentTweetCount # scroll.previousTweetCount

\* C34: whatever the interleaving of the two scanners and of the sweeps,
\* no post identifier is ever the subject of more than one sendToDiscord
\* call.
C34_NotifiedOnce == \A id \in TweetIds : notified[id] <= 1

\* C35: in every state a RawPost with status processed has a ClassifiedPost
\* with its identifier, and a RawPost with status discarded has none.
C35_StatusAgrees ==
    \A i \in DOMAIN posts :
        /\ posts[i].status = "processed"
           => Matching(tweetsIA, posts[i].tweetId) # {}
        /\ posts[i].status = "discarded"
           => Matching(tweetsIA, posts[i].tweetId) = {}

\* the first half of C35 alone
ProcessedHasClassified ==
    \A i \in DOMAIN posts :
        posts[i].status = "processed"
        => Matching(tweetsIA, posts[i].tweetId) # {}

\* a startWorker run takes its last step
RunEnds(i) == wk[i].pc = "returned" /\ wk'[i].pc = "done"

\* the run has started the feed loop and the cron job on an open browser
StartsScanning ==
    /\ feeds' = feeds + 1
    /\ crons' = crons + 1
    /\ browserInstance = "open"

\* the run has set a timer for a new run
SchedulesRestart == timers' # timers /\ timers \subseteq timers'

\* C36: a startWorker run ends either by starting the feed loop and the
\* cron job on an open browser or by scheduling a new run, never with both
\* and never with neither, whatever setupPersistentBrowser returned.
C36_RunEndsScanningOrRestarting ==
    [][\A i \in Workers :
           RunEnds(i) => (StartsScanning /\ ~SchedulesRestart)
                         \/ (SchedulesRestart /\ ~StartsScanning)]_vars

\* when no run is in progress, a feed loop is running on an open browser
\* or a restart is pending
NeverNeither ==
    (\A i \in Workers : wk[i].pc = "done")
    => \/ feeds > feedCrashes /\ crons > 0 /\ browserInstance = "open"
       \/ timers # {}

\* C37: whatever startWorker runs have taken place (callers of the
\* exported function, restarts by timer), at most one feed loop is running
\* and at most one cron job is scheduled; a cron job is never stopped.
C37_OneFeedOneCron == feeds - feedCrashes <= 1 /\ crons <= 1

\* C38: checkAndInjectCredentials is only ever run on an open browser: the
\* setupPersistentBrowser call that follows a 'premium' result, which has
\* closed the browser, launches a new one before it validates.
C38_ValidatesOnLiveBrowser ==
    [][\A i \in Workers :
           (wk[i].pc = "validate" /\ wk'[i] # wk[i])
           => browserInstance = "open"]_vars

\* C39: a ClassifiedPost carries the capture source of the RawPost with
\* its identifier, whether processTweet or retryFailedAI stored it.
C39_SameSourceTag ==
    \A i \in DOMAIN tweetsIA :
        \A j \in Matching(posts, tweetsIA[i].tweetId) :
            tweetsIA[i].scrapedFor = posts[j].scrapedFor

\* C19: a retryFailedAI(5) invocation fetches at most SWEEP_LIMIT posts and
\* has attempted the classification of every post of its batch when it ends.
C19_SweepCoversBatch ==
    retry.pc = "done"
    => /\ Len(retry.batch) <= SWEEP_LIMIT
       /\ retry.attempted = Range(retry.batch)

\* C20: the sweep never has a classifier call running for a post whose
\* processTweet invocation is still at the rate gate, in the limiter queue
\* or in its own classifier call.
C20_SweepSkipsInFlight ==
    \A s \in Sweeps, p \in Scanners :
        ~(/\ sw[s].pc = "classify"
          /\ pt[p].pc \in {"gate", "queued", "classify"}
          /\ pt[p].id = sw[s].id)

====
